---- MODULE Spec2Model ----
(***************************************************************************)
(* EpiRust: agent-based epidemic simulator.                                *)
(*                                                                         *)
(* The module holds several specifications over one set of variables:      *)
(*   SpecDSM      the DiseaseStateMachine driven through its public API    *)
(*   SpecCitizen  one Citizen's disease progress under the hourly routine  *)
(*   SpecMap      the two-map hourly tick (Epidemiology::simulate)         *)
(*   SpecCounts   Counts bookkeeping of one region                         *)
(* Each specification leaves the variables of the others unchanged.        *)
(***************************************************************************)
EXTENDS Integers, Sequences, FiniteSets, TLC

VARIABLES
    machine,        \* DiseaseStateMachine { state, infection_day }
    current_hour,   \* the simulation hour the machine's caller has reached
    last_call,      \* the last call on the machine: op, machine before, draws, result
    panicked,       \* the process aborted with panic!("Invalid state transition!")
    citizen,        \* one Citizen of the region (the fields its disease progress reads)
    simulation_hour, \* the last hour the region has simulated
    agent_location_map,         \* Epidemiology.agent_location_map.agent_cell: cell -> citizen
    write_agent_location_map,   \* Epidemiology.write_agent_location_map.agent_cell
    pending,        \* the cells of the read buffer the tick's loop has yet to visit
    last_insert,    \* the last write_buffer.agent_cell.insert of the tick
    counts,         \* counts_at_hr: Counts of the region
    region,         \* the citizens in the region's agent_location_map
    travel,         \* population at start, travellers removed and assimilated so far
    neighbours,     \* what the map and the rng answered the citizen's last update_exposure
    run,            \* the single-region run: its starting infections, simulation_ended emitted
    lockdown,       \* the city's lockdown: the citizen's cell and isolation, the cell when locked
    engines,        \* the regions of a multi-region run: each one's loop, map and counts
    bus,            \* the streams of ticks, commuters and migrators of every region, the acks
    coordinator,    \* the coordinator's last tick; where every agent was last simulated
    plan,           \* the travel plan of the run's config
    orchestrator,   \* the orchestrator's TravelPlan, the lockdown status and the plan it derives
    traveller       \* the travellers of a region: the commuters it buckets, the one it hands over

dsmVars == <<machine, current_hour, last_call>>
citizenVars == <<citizen, simulation_hour>>
mapVars == <<agent_location_map, write_agent_location_map, pending, last_insert>>

countsVars == <<counts, region, travel>>

exposureVars == <<neighbours>>

(* the variables of the specifications further down, idle in the ones above *)
singleVars == <<run>>
lockdownVars == <<lockdown>>
protocolVars == <<engines, bus, coordinator, plan>>
functionVars == <<orchestrator, traveller>>
restVars == <<exposureVars, singleVars, lockdownVars, protocolVars, functionVars>>

vars == <<dsmVars, panicked, citizenVars, mapVars, countsVars, restVars>>

----------------------------------------------------------------------------
(* Bounds of the model and the disease configuration it runs with.         *)

MaxHourDSM == 11          \* hours the API-level clock runs through
MaxInfectionDay == 15     \* cap of increment_infection_day in SpecDSM
ExposedDuration == 3      \* disease.get_exposed_duration(), hours
PreSymptomaticDuration == 4   \* disease.get_pre_symptomatic_duration(), hours
DiseaseLastDay == 14      \* disease.get_disease_last_day()
MaxSimHour == 408         \* config.get_hours() - 1: the last hour simulated

(* Program constants (models::constants). *)
MILD_INFECTED_LAST_DAY == 12
ASYMPTOMATIC_LAST_DAY == 9
RANGE_FOR_EXPOSED == {-2, -1, 0, 1, 2}
IMMUNITY_RANGE == {-2, -1, 0, 1, 2}
NUMBER_OF_HOURS == 24
HOURS_IN_A_DAY == 24
ROUTINE_START_TIME == 0
SLEEP_START_TIME == 1
SLEEP_END_TIME == 6
ROUTINE_TRAVEL_START_TIME == 7
ROUTINE_WORK_TIME == 8
NON_WORKING_TRAVEL_END_TIME == 12
ROUTINE_TRAVEL_END_TIME == 17
ROUTINE_WORK_END_TIME == 18
ROUTINE_END_TIME == 23
QUARANTINE_DAYS == 14

(* `x as Hour`, `x as Day`: the cast of an i32 to the unsigned 32-bit type. *)
(* A negative x becomes 2^32 + x; TLC's integers end at 2^31 - 1, so the    *)
(* wrapped value is written 2^31 + x, which like 2^32 + x is larger than    *)
(* every hour and day the model reaches.                                    *)
AsU32(x) == IF x >= 0 THEN x ELSE (2147483647 + x) + 1

----------------------------------------------------------------------------
(* enum State, enum InfectionSeverity *)

Pre(h) == [tag |-> "Pre", at_hour |-> h]
Mild == [tag |-> "Mild"]
Severe == [tag |-> "Severe"]

Susceptible == [tag |-> "Susceptible"]
Exposed(h) == [tag |-> "Exposed", at_hour |-> h]
Infected(symptoms, severity) ==
    [tag |-> "Infected", symptoms |-> symptoms, severity |-> severity]
Recovered == [tag |-> "Recovered"]
Deceased == [tag |-> "Deceased"]

new == [state |-> Susceptible, infection_day |-> 0]

is_susceptible(m) == m.state.tag = "Susceptible"
is_exposed(m) == m.state.tag = "Exposed"
is_infected(m) == m.state.tag = "Infected"
is_pre_symptomatic(m) == is_infected(m) /\ m.state.severity.tag = "Pre"
is_symptomatic(m) ==
    is_infected(m) /\ m.state.symptoms /\ m.state.severity.tag # "Pre"
is_deceased(m) == m.state.tag = "Deceased"
is_mild_symptomatic(m) == m.state = Infected(TRUE, Mild)
is_infected_severe(m) == m.state = Infected(TRUE, Severe)

get_infection_day(m) == IF is_infected(m) THEN m.infection_day ELSE 0

(* A call's outcome: the machine after it, whether it panicked, its return value. *)
Ok(m, ret) == [panic |-> FALSE, machine |-> m, ret |-> ret]
Panic(m) == [panic |-> TRUE, machine |-> m, ret |-> "panic"]

----------------------------------------------------------------------------
(* The transition methods. The rng draws are parameters. *)

expose_lenient(m, hour) == Ok([m EXCEPT !.state = Exposed(hour)], "unit")

expose(m, hour) ==
    IF m.state.tag = "Susceptible"
    THEN Ok([m EXCEPT !.state = Exposed(hour)], "unit")
    ELSE Panic(m)

(* random_factor: the element of RANGE_FOR_EXPOSED drawn; symptoms: gen_bool's answer *)
infect_threshold_early(sim_hr, at_hour, random_factor) ==
    sim_hr - at_hour >= AsU32(ExposedDuration + random_factor) - 1

infect_threshold(sim_hr, at_hour, random_factor) ==
    sim_hr - at_hour >= AsU32(ExposedDuration + random_factor)

infect(m, sim_hr, random_factor, symptoms) ==
    IF m.state.tag = "Exposed"
    THEN IF infect_threshold(sim_hr, m.state.at_hour, random_factor)
         THEN Ok([m EXCEPT !.state =
                     Infected(symptoms, IF symptoms THEN Pre(sim_hr) ELSE Mild)],
                 TRUE)
         ELSE Ok(m, FALSE)
    ELSE Panic(m)

pre_symptomatic_over_strict(current_hr, at_hour) ==
    current_hr - at_hour > PreSymptomaticDuration

pre_symptomatic_over(current_hr, at_hour) ==
    current_hr - at_hour >= PreSymptomaticDuration

change_infection_severity_lenient(m, hour, severe) ==
    IF m.state.tag = "Infected"
    THEN IF m.state.severity.tag = "Pre"
            /\ pre_symptomatic_over(hour, m.state.severity.at_hour)
         THEN Ok([m EXCEPT !.state =
                     Infected(m.state.symptoms, IF severe THEN Severe ELSE Mild)], "unit")
         ELSE Ok(m, "unit")
    ELSE Panic(m)

change_infection_severity(m, hour, severe) ==
    IF m.state.tag = "Infected" /\ m.state.symptoms
    THEN IF m.state.severity.tag = "Pre"
            /\ pre_symptomatic_over(hour, m.state.severity.at_hour)
         THEN Ok([m EXCEPT !.state =
                     Infected(TRUE, IF severe THEN Severe ELSE Mild)], "unit")
         ELSE Ok(m, "unit")
    ELSE Panic(m)

(* decision: disease.is_to_be_hospitalized(day)'s answer for the day passed *)
hospitalize_day(m, immunity) == AsU32(m.infection_day + immunity)

hospitalize_any_severity(m, immunity, decision) ==
    IF m.state.tag = "Infected" THEN Ok(m, decision) ELSE Panic(m)

hospitalize(m, immunity, decision) ==
    IF m.state = Infected(TRUE, Severe) THEN Ok(m, decision)
    ELSE IF m.state.tag = "Infected" THEN Ok(m, FALSE)
    ELSE Panic(m)

(* to_be_deceased: disease.is_to_be_deceased(rng)'s answer *)
decease_off_by_one(m, to_be_deceased) ==
    IF m.state = Infected(TRUE, Severe)
    THEN IF m.infection_day = DiseaseLastDay
         THEN IF to_be_deceased THEN Ok([m EXCEPT !.state = Deceased], <<1, 0>>)
              ELSE Ok([m EXCEPT !.state = Recovered], <<0, 1>>)
         ELSE Ok(m, <<0, 0>>)
    ELSE IF m.state = Infected(TRUE, Mild)
    THEN IF m.infection_day = MILD_INFECTED_LAST_DAY + 1
         THEN Ok([m EXCEPT !.state = Recovered], <<0, 1>>)
         ELSE Ok(m, <<0, 0>>)
    ELSE IF m.state.tag = "Infected"
    THEN IF m.infection_day = ASYMPTOMATIC_LAST_DAY
         THEN Ok([m EXCEPT !.state = Recovered], <<0, 1>>)
         ELSE Ok(m, <<0, 0>>)
    ELSE Panic(m)

decease(m, to_be_deceased) ==
    IF m.state = Infected(TRUE, Severe)
    THEN IF m.infection_day = DiseaseLastDay
         THEN IF to_be_deceased THEN Ok([m EXCEPT !.state = Deceased], <<1, 0>>)
              ELSE Ok([m EXCEPT !.state = Recovered], <<0, 1>>)
         ELSE Ok(m, <<0, 0>>)
    ELSE IF m.state = Infected(TRUE, Mild)
    THEN IF m.infection_day = MILD_INFECTED_LAST_DAY
         THEN Ok([m EXCEPT !.state = Recovered], <<0, 1>>)
         ELSE Ok(m, <<0, 0>>)
    ELSE IF m.state.tag = "Infected"
    THEN IF m.infection_day = ASYMPTOMATIC_LAST_DAY
         THEN Ok([m EXCEPT !.state = Recovered], <<0, 1>>)
         ELSE Ok(m, <<0, 0>>)
    ELSE Panic(m)

increment_infection_day_twice(m) == [m EXCEPT !.infection_day = @ + 2]

increment_infection_day(m) == [m EXCEPT !.infection_day = @ + 1]

set_mild_asymptomatic(m) == [state |-> Infected(FALSE, Mild), infection_day |-> 1]
set_mild_symptomatic(m) == [state |-> Infected(TRUE, Mild), infection_day |-> 1]
set_severe_infected(m) == [state |-> Infected(TRUE, Severe), infection_day |-> 1]

----------------------------------------------------------------------------
(* SpecDSM: any caller of the machine's public API. The caller passes the   *)
(* simulation hour it has reached, which never decreases. A panic aborts    *)
(* the process: nothing runs after it.                                      *)

Call(op, draws, out) ==
    /\ ~panicked
    /\ machine' = out.machine
    /\ panicked' = out.panic
    /\ last_call' = [op |-> op, before |-> machine, hour |-> current_hour,
                     draws |-> draws, ret |-> out.ret]
    /\ UNCHANGED <<current_hour, citizenVars, mapVars, countsVars, restVars>>

IdleDSM ==
    /\ machine = new
    /\ current_hour = 0
    /\ last_call = [op |-> "new", before |-> new, hour |-> 0,
                    draws |-> <<>>, ret |-> "unit"]

IdleCitizen ==
    /\ citizen = "none"
    /\ simulation_hour = 0

NoInsert == [cell |-> 0, point |-> 0, new_location |-> 0, replaced |-> 0]

IdleMap ==
    /\ agent_location_map = <<>>
    /\ write_agent_location_map = <<>>
    /\ pending = {}
    /\ last_insert = NoInsert

IdleCounts ==
    /\ counts = [hour |-> 0, susceptible |-> 0, exposed |-> 0, infected |-> 0,
                 hospitalized |-> 0, recovered |-> 0, deceased |-> 0]
    /\ region = <<>>
    /\ travel = [population |-> 0, removed |-> 0, assimilated |-> 0]

NoNeighbours == [cells |-> <<>>, trials |-> <<>>, before |-> "none"]

IdleExposure == neighbours = NoNeighbours

NoStartingInfections ==
    [infected_mild_asymptomatic |-> 0, infected_mild_symptomatic |-> 0,
     infected_severe |-> 0, exposed |-> 0]

IdleSingle ==
    run = [start_infections |-> NoStartingInfections, started |-> FALSE, ended |-> FALSE,
           simulation_ended |-> 0, run_mode |-> "Standalone", terminated |-> FALSE,
           lockdown |-> [locked_down |-> FALSE, zero_infection_hour |-> 0]]

IdleLockdown ==
    lockdown = [cell |-> "home", isolated |-> FALSE, locked |-> FALSE,
                locked_at |-> 0, cell_when_locked |-> "home"]

(* the regions of a multi-region run, none started *)
NumRegions == 2           \* the regions of the travel plan
MaxEngineHour == 25       \* config.get_hours() - 1 of this run
MaxRedelivered == 1       \* messages the bus delivers a second time
MaxFailed == 1            \* sends of a bucket whose delivery fails
MaxAckFailures == 1       \* sends of an ack that return an error

Regions == 1..NumRegions

(* commuter i lives in region i and works in the next one; resident *)
(* NumRegions + i lives and works in region i                       *)
Commuters == 1..NumRegions
Residents == (NumRegions + 1)..(2 * NumRegions)
Agents == Commuters \cup Residents
Home(a) == IF a \in Commuters THEN a ELSE a - NumRegions
Work(a) == IF a \in Commuters THEN (a % NumRegions) + 1 ELSE Home(a)

is_commute_hour(hr) ==
    hr % 24 = ROUTINE_TRAVEL_END_TIME \/ hr % 24 = ROUTINE_TRAVEL_START_TIME
is_migration_hour(hr) == hr % 24 = 0

(* receive_tick, send_ack: the hours the region waits for a tick at *)
is_boundary_hour(config, hr) ==
    \/ config.commute_enabled /\ is_commute_hour(hr)
    \/ config.migration_enabled /\ is_migration_hour(hr)

(* the commute matrix of the plan: who lives in i and works in j *)
commute_matrix(i, j) ==
    IF i = j THEN 0 ELSE Cardinality({a \in Commuters : Home(a) = i /\ Work(a) = j})

(* CommutePlan::incoming_regions_count, EngineMigrationPlan::incoming_regions_count *)
commute_incoming_regions_count(config, e) ==
    IF config.commute_enabled
    THEN Cardinality({i \in Regions : commute_matrix(i, e) > 0})
    ELSE 0
migration_incoming_regions_count(config, e) ==
    Cardinality({i \in Regions : i # e /\ config.migration[i][e] > 0})

Plans ==
    {[commute_enabled |-> c, migration_enabled |-> m, migration |-> matrix] :
        c \in BOOLEAN, m \in BOOLEAN,
        matrix \in {x \in [Regions -> [Regions -> 0..1]] : \A i \in Regions : x[i][i] = 0}}

NoTick == [hour |-> 0, terminate |-> FALSE]
NoTickRead == [hour |-> 0, at |-> 0]
NoMessageRead == [kind |-> "none", hour |-> 0, at |-> 0, redelivered |-> FALSE]
NoAgents == [a \in Agents |-> 0]
NotSimulated == [a \in Agents |-> [engine |-> 0, hour |-> 0, before |-> [engine |-> 0, hour |-> 0]]]

Engine_new(e) ==
    [hour |-> 1,                 \* simulation_hour of the loop
     pc |-> "tick",              \* where the loop stands
     tick |-> NoTick,            \* the tick receive_tick returned for this hour
     map |-> [a \in Agents |-> IF Home(a) = e THEN 1 ELSE 0],
     counts |-> [hour |-> 0, population |-> Cardinality({a \in Agents : Home(a) = e})],
     outgoing |-> {},            \* outgoing_commuters, actual_outgoing
     incoming |-> NoAgents,      \* incoming, as the receive loop extends it
     received |-> 0,             \* received_incoming_regions
     log |-> <<>>,               \* the steps of this pass of the loop
     tick_read |-> NoTickRead,   \* the last tick taken from the stream, and the hour it was read at
     message_read |-> NoMessageRead,
     simulation_ended |-> 0]     \* calls of listeners.simulation_ended()

IdleProtocol ==
    /\ engines = [e \in Regions |-> Engine_new(e)]
    /\ bus = [ticks |-> [e \in Regions |-> <<>>], commute |-> [e \in Regions |-> <<>>],
              migration |-> [e \in Regions |-> <<>>], acks |-> {}, redeliveries |-> 0,
              failed |-> {}, ack_failures |-> 0]
    /\ coordinator = [ticked |-> 0, terminated |-> FALSE, simulated |-> NotSimulated]
    /\ plan = [commute_enabled |-> FALSE, migration_enabled |-> FALSE,
               migration |-> [i \in Regions |-> [j \in Regions |-> 0]]]

(* the orchestrator, no plan read *)
NoPlan == [regions |-> <<>>, matrix |-> <<>>, lockdown_travellers |-> 0]

IdleOrchestrator ==
    orchestrator = [configured |-> FALSE, travel_plan |-> NoPlan, lockdown_status |-> <<>>,
                    op |-> "none", before |-> NoPlan, new_travel_plan |-> NoPlan,
                    regions |-> <<>>, valid |-> FALSE]

IdleTraveller == traveller = [op |-> "none"]

IdleFunctions == IdleOrchestrator /\ IdleTraveller

IdleRest == IdleExposure /\ IdleSingle /\ IdleLockdown /\ IdleProtocol /\ IdleFunctions

InitDSM ==
    /\ IdleRest
    /\ IdleCitizen
    /\ IdleMap
    /\ IdleCounts
    /\ IdleDSM
    /\ panicked = FALSE

AdvanceHour ==
    /\ ~panicked
    /\ current_hour < MaxHourDSM
    /\ current_hour' = current_hour + 1
    /\ UNCHANGED <<machine, last_call, panicked, citizenVars, mapVars, countsVars, restVars>>

Expose == Call("expose", <<>>, expose(machine, current_hour))

Infect ==
    \E random_factor \in RANGE_FOR_EXPOSED : \E symptoms \in BOOLEAN :
        Call("infect", <<random_factor>>,
             infect(machine, current_hour, random_factor, symptoms))

ChangeInfectionSeverity ==
    \E severe \in BOOLEAN :
        Call("change_infection_severity", <<>>,
             change_infection_severity(machine, current_hour, severe))

Hospitalize ==
    \E immunity \in IMMUNITY_RANGE : \E decision \in BOOLEAN :
        Call("hospitalize", <<immunity, hospitalize_day(machine, immunity), decision>>,
             hospitalize(machine, immunity, decision))

Decease ==
    \E to_be_deceased \in BOOLEAN :
        Call("decease", <<>>, decease(machine, to_be_deceased))

IncrementInfectionDay ==
    /\ machine.infection_day < MaxInfectionDay
    /\ Call("increment_infection_day", <<>>, Ok(increment_infection_day(machine), "unit"))

(* "should be called only during initialization": on a fresh machine, before hour 1 *)
SetStartingInfection ==
    /\ machine = new
    /\ current_hour = 0
    /\ \E m \in {set_mild_asymptomatic(machine), set_mild_symptomatic(machine),
                 set_severe_infected(machine)} :
           Call("set_starting_infection", <<>>, Ok(m, "unit"))

NextDSM ==
    \/ AdvanceHour
    \/ Expose
    \/ Infect
    \/ ChangeInfectionSeverity
    \/ Hospitalize
    \/ Decease
    \/ IncrementInfectionDay
    \/ SetStartingInfection

SpecDSM == InitDSM /\ [][NextDSM]_vars

----------------------------------------------------------------------------
(* Citizen: the hourly routine, as far as it reads and writes the fields    *)
(* that decide the citizen's disease progress. The cell the routine returns *)
(* and the flags that only steer movement (isolated) belong to the map.     *)
(* Areas are named, not laid out: "home", "work", "transport", "housing",   *)
(* "hospital". What the map answers (an infectious neighbour, a vacant      *)
(* hospital cell) and what the rng draws are choices.                       *)

Normal == [tag |-> "Normal"]
Essential == [tag |-> "Essential"]
HospitalStaff(work_start_at) == [tag |-> "HospitalStaff", work_start_at |-> work_start_at]
NA == [tag |-> "NA"]

new_with_id(immunity, uses_public_transport, work_status) ==
    [state_machine |-> new, immunity |-> immunity, vaccinated |-> FALSE,
     uses_public_transport |-> uses_public_transport, hospitalized |-> FALSE,
     current_area |-> "home", work_status |-> work_status,
     work_quarantined |-> FALSE]

derive_work_status(is_working) ==
    IF is_working THEN {HospitalStaff(ROUTINE_WORK_TIME), Normal} ELSE {NA}

assign_essential_worker(work_status) ==
    IF work_status = Normal THEN {Normal, Essential} ELSE {work_status}

is_hospital_staff(c) == c.work_status.tag = "HospitalStaff"

saturating_sub(a, b) == IF a >= b THEN a - b ELSE 0

(* The outcome of a step of the routine: the citizen after it, or a panic. *)
Done(c) == [c |-> c, panic |-> FALSE]
Aborted(c) == [c |-> c, panic |-> TRUE]
FromCall(c, out) ==
    IF out.panic THEN Aborted(c) ELSE Done([c EXCEPT !.state_machine = out.machine])
AndThen(outcomes, step(_)) ==
    UNION {IF o.panic THEN {o} ELSE step(o.c) : o \in outcomes}

update_infection_day_always(c) ==
    [c EXCEPT !.state_machine = increment_infection_day(@)]

update_infection_day(c) ==
    IF is_infected(c.state_machine)
    THEN [c EXCEPT !.state_machine = increment_infection_day(@)]
    ELSE c

(* Citizen::hospitalize; goto_hospital finds a vacant hospital cell or not *)
citizen_hospitalize(c) ==
    IF is_infected(c.state_machine) /\ ~c.hospitalized
    THEN UNION {
           LET out == hospitalize(c.state_machine, c.immunity, decision)
           IN  IF out.panic THEN {Aborted(c)}
               ELSE IF out.ret
               THEN {Done([c EXCEPT !.hospitalized = is_hospitalized]) :
                        is_hospitalized \in BOOLEAN}
               ELSE {Done(c)}
           : decision \in BOOLEAN}
    ELSE {Done(c)}

(* deceased without the reset of the flag (agent.rs:447-449 left out) *)
deceased_keeps_hospitalized(c) ==
    IF is_infected(c.state_machine)
    THEN {LET out == decease(c.state_machine, to_be_deceased)
          IN  IF out.panic THEN Aborted(c)
              ELSE Done([c EXCEPT !.state_machine = out.machine])
          : to_be_deceased \in BOOLEAN}
    ELSE {Done(c)}

(* Citizen::deceased *)
deceased(c) ==
    IF is_infected(c.state_machine)
    THEN {LET out == decease(c.state_machine, to_be_deceased)
          IN  IF out.panic THEN Aborted(c)
              ELSE Done([c EXCEPT !.state_machine = out.machine,
                                  !.hospitalized = IF out.ret # <<0, 0>> /\ c.hospitalized
                                                   THEN FALSE ELSE @])
          : to_be_deceased \in BOOLEAN}
    ELSE {Done(c)}

(* update_exposure: some infected, non-hospitalized neighbour's trial succeeds, or none *)
update_exposure(c, sim_hr) ==
    IF is_susceptible(c.state_machine) /\ ~c.work_quarantined /\ ~c.vaccinated
    THEN {Done(c), FromCall(c, expose(c.state_machine, sim_hr))}
    ELSE {Done(c)}

update_infection(c, sim_hr) ==
    IF is_exposed(c.state_machine)
    THEN {FromCall(c, infect(c.state_machine, sim_hr, random_factor, symptoms)) :
             random_factor \in RANGE_FOR_EXPOSED, symptoms \in BOOLEAN}
    ELSE {Done(c)}

update_infection_severity(c, sim_hr) ==
    IF is_pre_symptomatic(c.state_machine)
    THEN {FromCall(c, change_infection_severity(c.state_machine, sim_hr, severe)) :
             severe \in BOOLEAN}
    ELSE {Done(c)}

update_infection_dynamics(c, sim_hr) ==
    LET infection(x) == update_infection(x, sim_hr)
        severity(x) == update_infection_severity(x, sim_hr)
    IN  AndThen(AndThen(update_exposure(c, sim_hr), infection), severity)

(* perform_movements: the area bookkeeping of each branch, then the dynamics; *)
(* dynamics stands for update_infection_dynamics and what the map and the    *)
(* rng answer it                                                            *)
perform_movements_with(c, hour_of_day, simulation_hr, dynamics(_, _)) ==
    CASE c.work_status.tag \in {"Normal", "Essential"} ->
           dynamics(
             [c EXCEPT !.current_area =
                 IF hour_of_day \in {ROUTINE_TRAVEL_START_TIME, ROUTINE_TRAVEL_END_TIME}
                 THEN (IF c.uses_public_transport THEN "transport" ELSE @)
                 ELSE IF hour_of_day = ROUTINE_WORK_TIME THEN "work"
                 ELSE IF hour_of_day = ROUTINE_WORK_END_TIME THEN "home"
                 ELSE @],
             simulation_hr)
      [] c.work_status.tag = "HospitalStaff" ->
           LET work_start_at == c.work_status.work_start_at
               since == saturating_sub(simulation_hr, work_start_at)
           IN  IF since = HOURS_IN_A_DAY * QUARANTINE_DAYS
               THEN {Done([c EXCEPT !.work_quarantined = TRUE])}
               ELSE IF since = HOURS_IN_A_DAY * QUARANTINE_DAYS * 2
               THEN {Done([c EXCEPT
                        !.current_area = "home",
                        !.work_status = HospitalStaff(
                            simulation_hr + HOURS_IN_A_DAY * QUARANTINE_DAYS)])}
               ELSE dynamics(
                      IF hour_of_day = ROUTINE_WORK_TIME
                      THEN IF c.current_area # "hospital" /\ work_start_at <= simulation_hr
                           THEN [c EXCEPT !.current_area = "hospital",
                                          !.work_status = HospitalStaff(simulation_hr),
                                          !.work_quarantined = FALSE]
                           ELSE [c EXCEPT !.work_quarantined = FALSE]
                      ELSE IF hour_of_day = ROUTINE_WORK_END_TIME
                      THEN [c EXCEPT !.work_quarantined = TRUE]
                      ELSE c,
                      simulation_hr)
      [] c.work_status.tag = "NA" ->
           dynamics(
             [c EXCEPT !.current_area =
                 IF hour_of_day = ROUTINE_WORK_TIME THEN "housing"
                 ELSE IF hour_of_day = NON_WORKING_TRAVEL_END_TIME THEN "home"
                 ELSE @],
             simulation_hr)

routine_with(c, simulation_hour_, dynamics(_, _)) ==
    LET hour_of_day == simulation_hour_ % NUMBER_OF_HOURS
    IN  IF hour_of_day = ROUTINE_START_TIME
        THEN citizen_hospitalize(update_infection_day(c))
        ELSE IF hour_of_day \in SLEEP_START_TIME..SLEEP_END_TIME
        THEN {Done(IF ~is_hospital_staff(c) THEN [c EXCEPT !.current_area = "home"] ELSE c)}
        ELSE IF hour_of_day = ROUTINE_END_TIME
        THEN deceased(c)
        ELSE perform_movements_with(c, hour_of_day, simulation_hour_, dynamics)

perform_movements(c, hour_of_day, simulation_hr) ==
    perform_movements_with(c, hour_of_day, simulation_hr, update_infection_dynamics)

routine(c, simulation_hour_) ==
    routine_with(c, simulation_hour_, update_infection_dynamics)

(* Epidemiology::vaccinate, for this citizen: gen_bool(vaccination_percentage) *)
vaccinate(c) ==
    IF is_susceptible(c.state_machine)
    THEN {c, [c EXCEPT !.vaccinated = TRUE]}
    ELSE {c}

(* citizen_factory, set_starting_infections, init_interventions *)
StartingMachines ==
    {new, expose(new, 0).machine, set_mild_asymptomatic(new),
     set_mild_symptomatic(new), set_severe_infected(new)}

InitCitizen ==
    /\ IdleRest
    /\ IdleDSM
    /\ IdleMap
    /\ IdleCounts
    /\ panicked = FALSE
    /\ simulation_hour = 0
    /\ \E is_working \in BOOLEAN, immunity \in IMMUNITY_RANGE,
          uses_public_transport \in BOOLEAN, m \in StartingMachines :
         \E derived \in derive_work_status(is_working) :
           \E work_status \in assign_essential_worker(derived) :
             /\ uses_public_transport => is_working
             /\ citizen = [new_with_id(immunity, uses_public_transport, work_status)
                              EXCEPT !.state_machine = m]

(* One pass of the hour loop for this citizen: simulate, then the interventions. *)
SimulateHour ==
    /\ ~panicked
    /\ simulation_hour < MaxSimHour
    /\ \E out \in routine(citizen, simulation_hour + 1) :
         /\ panicked' = out.panic
         /\ IF out.panic THEN citizen' = out.c
            ELSE citizen' \in vaccinate(out.c)
    /\ simulation_hour' = simulation_hour + 1
    /\ UNCHANGED <<dsmVars, mapVars, countsVars, restVars>>

NextCitizen == SimulateHour

SpecCitizen == InitCitizen /\ [][NextCitizen]_vars

----------------------------------------------------------------------------
(* The two-map hourly tick (src/src/epidemiology_simulation.rs). A map is   *)
(* agent_cell: cell -> citizen, here a function over the grid's cells with  *)
(* Vacant where the HashMap has no entry. A citizen is its identity; what   *)
(* perform_operation does to its other fields does not decide its cell.     *)

NumCells == 5             \* cells of the grid
NumCitizens == 3          \* agents of the population
MaxMapHour == 3           \* config.get_hours() - 1 of the two-map run

Cells == 1..NumCells
Population == 1..NumCitizens
Vacant == 0

EmptyMap == [cell \in Cells |-> Vacant]
OccupiedCells(map) == {cell \in Cells : map[cell] # Vacant}
CitizensOf(map) == {map[cell] : cell \in OccupiedCells(map)}

(* AgentLocationMap *)
is_cell_vacant(map, cell) == map[cell] = Vacant
move_agent(map, old_cell, new_cell) ==
    IF is_cell_vacant(map, new_cell) THEN new_cell ELSE old_cell

(* run: the buffers of the tick of hour h, swapped by its parity *)
ReadBuffer(h) ==
    IF h % 2 = 0 THEN write_agent_location_map ELSE agent_location_map
WriteBuffer(h) ==
    IF h % 2 = 0 THEN agent_location_map ELSE write_agent_location_map

(* perform_operation: the point the routine returns, always through        *)
(* map.move_agent on the read buffer, whatever point it aimed at           *)
perform_operation(cell, read_buffer) ==
    {move_agent(read_buffer, cell, aimed) : aimed \in Cells}

(* simulate: where the agent is inserted once its routine returned point *)
new_location_unchecked(agent_option, cell, point) == point

new_location(agent_option, cell, point) ==
    IF agent_option # Vacant THEN cell ELSE point

(* Epidemiology::new and the start of run: the write map is emptied *)
InitMap ==
    /\ IdleRest
    /\ IdleDSM
    /\ IdleCounts
    /\ panicked = FALSE
    /\ citizen = "none"
    /\ simulation_hour = 0
    /\ agent_location_map \in
         {map \in [Cells -> Population \cup {Vacant}] :
            \A id \in Population : Cardinality({cell \in Cells : map[cell] = id}) = 1}
    /\ write_agent_location_map = EmptyMap
    /\ pending = {}
    /\ last_insert = NoInsert

WriteTo_read_buffer(h, map) ==
    IF h % 2 = 0
    THEN write_agent_location_map' = map /\ UNCHANGED agent_location_map
    ELSE agent_location_map' = map /\ UNCHANGED write_agent_location_map

WriteTo(h, map) ==
    IF h % 2 = 0
    THEN agent_location_map' = map /\ UNCHANGED write_agent_location_map
    ELSE write_agent_location_map' = map /\ UNCHANGED agent_location_map

(* the hour loop enters simulate: write_buffer.agent_cell.clear() *)
StartSimulate ==
    /\ pending = {}
    /\ simulation_hour < MaxMapHour
    /\ simulation_hour' = simulation_hour + 1
    /\ WriteTo(simulation_hour + 1, EmptyMap)
    /\ pending' = OccupiedCells(ReadBuffer(simulation_hour + 1))
    /\ last_insert' = NoInsert
    /\ UNCHANGED <<dsmVars, panicked, citizen, countsVars, restVars>>

(* one pass of simulate's loop over read_buffer.agent_cell, in any order *)
SimulateAgent ==
    \E cell \in pending :
      LET read_buffer == ReadBuffer(simulation_hour)
          write_buffer == WriteBuffer(simulation_hour)
          current_agent == read_buffer[cell]
      IN  \E point \in perform_operation(cell, read_buffer) :
            LET agent_option == write_buffer[point]
                location == new_location(agent_option, cell, point)
            IN  /\ WriteTo(simulation_hour,
                           [write_buffer EXCEPT ![location] = current_agent])
                /\ pending' = pending \ {cell}
                /\ last_insert' = [cell |-> cell, point |-> point,
                                   new_location |-> location,
                                   replaced |-> write_buffer[location]]
                /\ UNCHANGED <<dsmVars, panicked, citizenVars, countsVars, restVars>>

NextMap == StartSimulate \/ SimulateAgent

SpecMap == InitMap /\ [][NextMap]_vars

----------------------------------------------------------------------------
(* Counts of one region over the hours of run_multi_engine. The region is   *)
(* the sequence of the citizens in its map; where they stand is left to the *)
(* map. What arrives from the other regions is a choice.                    *)

MaxPopulation == 1        \* agents the region starts with
MaxStartingInfections == 1    \* per kind of starting infection
MaxCountsHour == 25       \* config.get_hours() - 1 of this run
MaxRemoved == 1           \* travellers the run sends out
MaxAssimilated == 1       \* travellers the run takes in

(* models::events::Counts *)
Counts_new(s, e, i) ==
    [hour |-> 0, susceptible |-> s, exposed |-> e, infected |-> i,
     hospitalized |-> 0, recovered |-> 0, deceased |-> 0]
increment_hour(c) == [c EXCEPT !.hour = @ + 1]
clear(c) == [Counts_new(0, 0, 0) EXCEPT !.hour = c.hour]
Total(c) ==
    c.susceptible + c.exposed + c.infected + c.hospitalized + c.recovered + c.deceased

(* config::StartingInfections *)
StartingInfections ==
    [infected_mild_asymptomatic : 0..MaxStartingInfections,
     infected_mild_symptomatic : 0..MaxStartingInfections,
     infected_severe : 0..MaxStartingInfections,
     exposed : 0..MaxStartingInfections]
total_infected(si) ==
    si.infected_mild_asymptomatic + si.infected_mild_symptomatic + si.infected_severe
total(si) == total_infected(si) + si.exposed

counts_at_start(population, start_infections) ==
    LET s == population - total(start_infections)
        e == start_infections.exposed
        i == total_infected(start_infections)
    IN  Counts_new(s, e, i)

update_counts_by_state_only(counts_at_hr, c) ==
    LET st == c.state_machine.state
    IN  CASE st.tag = "Susceptible" -> [counts_at_hr EXCEPT !.susceptible = @ + 1]
          [] st.tag = "Exposed" -> [counts_at_hr EXCEPT !.exposed = @ + 1]
          [] st.tag = "Infected" -> [counts_at_hr EXCEPT !.infected = @ + 1]
          [] st.tag = "Recovered" -> [counts_at_hr EXCEPT !.recovered = @ + 1]
          [] st.tag = "Deceased" -> [counts_at_hr EXCEPT !.deceased = @ + 1]

update_counts(counts_at_hr, c) ==
    LET st == c.state_machine.state
    IN  CASE st.tag = "Susceptible" -> [counts_at_hr EXCEPT !.susceptible = @ + 1]
          [] st.tag = "Exposed" -> [counts_at_hr EXCEPT !.exposed = @ + 1]
          [] st.tag = "Infected" ->
               IF c.hospitalized
               THEN [counts_at_hr EXCEPT !.hospitalized = @ + 1]
               ELSE [counts_at_hr EXCEPT !.infected = @ + 1]
          [] st.tag = "Recovered" -> [counts_at_hr EXCEPT !.recovered = @ + 1]
          [] st.tag = "Deceased" -> [counts_at_hr EXCEPT !.deceased = @ + 1]

(* remove_migrators, remove_commuters: the counter of the traveller's state *)
decrement_counts(counts_at_hr, c) ==
    LET st == c.state_machine.state
    IN  CASE st.tag = "Susceptible" -> [counts_at_hr EXCEPT !.susceptible = @ - 1]
          [] st.tag = "Exposed" -> [counts_at_hr EXCEPT !.exposed = @ - 1]
          [] st.tag = "Infected" -> [counts_at_hr EXCEPT !.infected = @ - 1]
          [] st.tag = "Recovered" -> [counts_at_hr EXCEPT !.recovered = @ - 1]
          [] st.tag = "Deceased" -> [counts_at_hr EXCEPT !.deceased = @ - 1]

(* choose_multiple: amount distinct agents of the n, in the order the iterator *)
(* hands them out                                                             *)
choose_multiple_repeating(n, amount) == [1..amount -> 1..n]
choose_multiple(n, amount) ==
    {to_infect \in [1..amount -> 1..n] :
       \A j, k \in 1..amount : to_infect[j] = to_infect[k] => j = k}

(* set_starting_infections' four loops over the chosen citizens: to_infect[k] *)
(* is the k-th agent the iterator yields                                      *)
infect_chosen(agent_list, start_infections, to_infect) ==
    LET e == start_infections.exposed
        a == e + start_infections.infected_mild_asymptomatic
        m == a + start_infections.infected_mild_symptomatic
        v == m + start_infections.infected_severe
    IN  [i \in 1..Len(agent_list) |->
           IF \E k \in DOMAIN to_infect : to_infect[k] = i
           THEN LET k == CHOOSE k \in DOMAIN to_infect : to_infect[k] = i
                IN  [agent_list[i] EXCEPT !.state_machine =
                       IF k <= e THEN expose(@, 0).machine
                       ELSE IF k <= a THEN set_mild_asymptomatic(@)
                       ELSE IF k <= m THEN set_mild_symptomatic(@)
                       ELSE IF k <= v THEN set_severe_infected(@)
                       ELSE @]
           ELSE agent_list[i]]

(* set_starting_infections when the first agents of the list are the chosen *)
(* ones: the runs below never tell one agent of the region from another     *)
set_starting_infections(agent_list, start_infections) ==
    infect_chosen(agent_list, start_infections,
                  [k \in 1..total(start_infections) |-> k])

(* Citizen::can_move; no lockdown isolates the citizens of this run *)
can_move(c) ==
    ~(is_symptomatic(c.state_machine) \/ c.hospitalized \/ is_deceased(c.state_machine))

(* the travellers another region may send: Citizen::from_migrator, from_commuter *)
Traveller(m) == [new_with_id(0, FALSE, Normal) EXCEPT !.state_machine = m]
Travellers ==
    {Traveller(m) : m \in
       {new,
        [state |-> Infected(FALSE, Mild), infection_day |-> ASYMPTOMATIC_LAST_DAY],
        [state |-> Infected(TRUE, Severe), infection_day |-> DiseaseLastDay],
        [state |-> Recovered, infection_day |-> ASYMPTOMATIC_LAST_DAY]}}

(* commuters leave and arrive at the travel hours, migrators at the start of a day *)
TravelHour(hr) ==
    hr % NUMBER_OF_HOURS \in
      {ROUTINE_START_TIME, ROUTINE_TRAVEL_START_TIME, ROUTINE_TRAVEL_END_TIME}

(* simulate: the routine of every agent of the map *)
RECURSIVE simulate_agents(_, _)
simulate_agents(citizens, hr) ==
    IF citizens = <<>> THEN {<<>>}
    ELSE {<<out>> \o rest : out \in routine(Head(citizens), hr),
                            rest \in simulate_agents(Tail(citizens), hr)}

(* simulate: the counts of the hour, cleared and taken again agent by agent; *)
(* assimilate_migrators, assimilate_commuters: one update_counts per arrival *)
RECURSIVE count_citizens(_, _)
count_citizens(counts_at_hr, citizens) ==
    IF citizens = <<>> THEN counts_at_hr
    ELSE count_citizens(update_counts(counts_at_hr, Head(citizens)), Tail(citizens))

RECURSIVE remove_travellers(_, _)
remove_travellers(counts_at_hr, outgoing) ==
    IF outgoing = <<>> THEN counts_at_hr
    ELSE remove_travellers(decrement_counts(counts_at_hr, Head(outgoing)), Tail(outgoing))

SelectSeqAt(seq, keep) ==
    LET F[i \in 0..Len(seq)] ==
          IF i = 0 THEN <<>>
          ELSE IF i \in keep THEN Append(F[i - 1], seq[i]) ELSE F[i - 1]
    IN  F[Len(seq)]

(* Epidemiology::new, counts_at_start *)
InitCounts ==
    /\ IdleRest
    /\ IdleDSM
    /\ IdleMap
    /\ IdleCitizen
    /\ panicked = FALSE
    /\ \E population \in 1..MaxPopulation : \E start_infections \in StartingInfections :
         /\ total(start_infections) <= population
         /\ region = set_starting_infections(
                       [i \in 1..population |-> new_with_id(0, FALSE, Normal)],
                       start_infections)
         /\ counts = counts_at_start(population, start_infections)
         /\ travel = [population |-> population, removed |-> 0, assimilated |-> 0]

(* One pass of run_multi_engine's hour loop: simulate, then the commuters   *)
(* and migrators of the hour are removed and the arrivals assimilated.      *)
SimulateRegionHour ==
    /\ ~panicked
    /\ simulation_hour < MaxCountsHour
    /\ simulation_hour' = simulation_hour + 1
    /\ UNCHANGED <<dsmVars, citizen, mapVars, restVars>>
    /\ IF Len(region) = 0
       THEN /\ panicked' = TRUE            \* panic!("No citizens!")
            /\ counts' = increment_hour(counts)
            /\ UNCHANGED <<region, travel>>
       ELSE \E outs \in simulate_agents(region, simulation_hour + 1) :
              LET after == [i \in 1..Len(outs) |-> outs[i].c]
                  counted == count_citizens(clear(increment_hour(counts)), after)
                  movable == {i \in 1..Len(after) : can_move(after[i])}
              IN  IF \E i \in 1..Len(outs) : outs[i].panic
                  THEN /\ panicked' = TRUE
                       /\ region' = after
                       /\ counts' = increment_hour(counts)
                       /\ UNCHANGED travel
                  ELSE \E leaving \in {{}} \cup {{i} : i \in movable} :
                       \E incoming \in {<<>>} \cup {<<t>> : t \in Travellers} :
                         /\ leaving # {} =>
                              TravelHour(simulation_hour + 1) /\ travel.removed < MaxRemoved
                         /\ incoming # <<>> =>
                              TravelHour(simulation_hour + 1)
                                /\ travel.assimilated < MaxAssimilated
                         /\ panicked' = FALSE
                         /\ region' =
                              SelectSeqAt(after, (1..Len(after)) \ leaving) \o incoming
                         /\ counts' =
                              count_citizens(
                                remove_travellers(counted, SelectSeqAt(after, leaving)),
                                incoming)
                         /\ travel' = [travel EXCEPT
                                         !.removed = @ + Cardinality(leaving),
                                         !.assimilated = @ + Len(incoming)]

NextCounts == SimulateRegionHour

SpecCounts == InitCounts /\ [][NextCounts]_vars

----------------------------------------------------------------------------
(* update_exposure with the neighbourhood spelled out: the cells around the *)
(* citizen's cell that lie in its current area and in the grid, what each   *)
(* holds, and the Bernoulli trial of each agent found there.                *)

NumNeighbours == 1        \* cells of the neighbourhood that lie in the area and the grid
MaxExposureHour == 33     \* config.get_hours() - 1 of this run

NeighbourCells ==
    {[occupied |-> FALSE, infected |-> FALSE, hospitalized |-> FALSE],
     [occupied |-> TRUE, infected |-> FALSE, hospitalized |-> FALSE],
     [occupied |-> TRUE, infected |-> TRUE, hospitalized |-> FALSE],
     [occupied |-> TRUE, infected |-> TRUE, hospitalized |-> TRUE]}

(* the neighbours whose trial gen_bool(transmission rate) comes out true *)
Spreading(cells, trials) ==
    {i \in 1..Len(cells) :
       cells[i].occupied /\ cells[i].infected /\ ~cells[i].hospitalized /\ trials[i]}

(* find draws a trial only for the agents the filters let through *)
Trials(cells) ==
    {trials \in [1..Len(cells) -> BOOLEAN] :
       \A i \in 1..Len(cells) :
         trials[i] => cells[i].occupied /\ cells[i].infected /\ ~cells[i].hospitalized}

update_exposure_of_vaccinated(c, sim_hr, cells, trials) ==
    IF is_susceptible(c.state_machine) /\ ~c.work_quarantined
    THEN IF Spreading(cells, trials) # {}
         THEN FromCall(c, expose(c.state_machine, sim_hr))
         ELSE Done(c)
    ELSE Done(c)

update_exposure_among(c, sim_hr, cells, trials) ==
    IF is_susceptible(c.state_machine) /\ ~c.work_quarantined /\ ~c.vaccinated
    THEN IF Spreading(cells, trials) # {}
         THEN FromCall(c, expose(c.state_machine, sim_hr))
         ELSE Done(c)
    ELSE Done(c)

update_infection_dynamics_among(c, sim_hr, cells, trials) ==
    LET infection(x) == update_infection(x, sim_hr)
        severity(x) == update_infection_severity(x, sim_hr)
    IN  AndThen(AndThen({update_exposure_among(c, sim_hr, cells, trials)}, infection),
                severity)

InitExposure ==
    /\ IdleDSM
    /\ IdleMap
    /\ IdleCounts
    /\ IdleExposure
    /\ IdleSingle
    /\ IdleLockdown
    /\ IdleProtocol
    /\ IdleFunctions
    /\ panicked = FALSE
    /\ simulation_hour = 0
    /\ \E is_working \in BOOLEAN :
         \E derived \in derive_work_status(is_working) :
           \E work_status \in assign_essential_worker(derived) :
             citizen = new_with_id(0, FALSE, work_status)

(* One pass of the hour loop for a citizen that starts susceptible, among the *)
(* neighbours it finds.                                                       *)
SimulateAmongNeighbours ==
    /\ ~panicked
    /\ simulation_hour < MaxExposureHour
    /\ \E cells \in [1..NumNeighbours -> NeighbourCells] :
       \E trials \in Trials(cells) :
         LET dynamics(x, hr) == update_infection_dynamics_among(x, hr, cells, trials)
         IN  \E out \in routine_with(citizen, simulation_hour + 1, dynamics) :
               /\ panicked' = out.panic
               /\ IF out.panic THEN citizen' = out.c
                  ELSE citizen' \in vaccinate(out.c)
               /\ neighbours' = [cells |-> cells, trials |-> trials, before |-> citizen]
    /\ simulation_hour' = simulation_hour + 1
    /\ UNCHANGED <<dsmVars, mapVars, countsVars, singleVars, lockdownVars, protocolVars,
                 functionVars>>

NextExposure == SimulateAmongNeighbours

SpecExposure == InitExposure /\ [][NextExposure]_vars

----------------------------------------------------------------------------
(* The single-region run (run_single_engine): the citizens of the region    *)
(* expose one another; nobody travels.                                      *)

MaxSinglePopulation == 2  \* agents of the region
MaxSingleHour == 9        \* config.get_hours() - 1 of this run

(* what citizen i finds around it: the others, as the map held them before the tick *)
OthersOf(citizens, i) ==
    LET others == SelectSeqAt(citizens, (1..Len(citizens)) \ {i})
    IN  [j \in 1..Len(others) |->
           [occupied |-> TRUE, infected |-> is_infected(others[j].state_machine),
            hospitalized |-> others[j].hospitalized]]

(* simulate: the routine of every agent of the map, against the map before the tick *)
simulate_region(citizens, hr) ==
    LET outcomes(i) ==
          UNION {LET dynamics(x, h) ==
                       update_infection_dynamics_among(x, h, OthersOf(citizens, i), trials)
                 IN  routine_with(citizens[i], hr, dynamics)
                 : trials \in Trials(OthersOf(citizens, i))}
    IN  {outs \in [1..Len(citizens) -> UNION {outcomes(i) : i \in 1..Len(citizens)}] :
           \A i \in 1..Len(citizens) : outs[i] \in outcomes(i)}

stop_simulation_never(run_mode, row) == FALSE

stop_simulation_in_every_mode(run_mode, row) ==
    row.exposed = 0 /\ row.infected = 0 /\ row.hospitalized = 0

stop_simulation(run_mode, row) ==
    LET zero_active_cases == row.exposed = 0 /\ row.infected = 0 /\ row.hospitalized = 0
    IN  IF run_mode = "MultiEngine" THEN FALSE ELSE zero_active_cases

(* stop_simulation: what it leaves of lock_down_details *)
stop_simulation_lockdown(lock_down_details, run_mode, row) ==
    LET zero_active_cases == row.exposed = 0 /\ row.infected = 0 /\ row.hospitalized = 0
    IN  IF run_mode = "MultiEngine" /\ lock_down_details.locked_down /\ zero_active_cases
        THEN [lock_down_details EXCEPT !.zero_infection_hour = row.hour]
        ELSE lock_down_details

InitSingle ==
    /\ IdleDSM
    /\ IdleMap
    /\ IdleCitizen
    /\ IdleExposure
    /\ IdleLockdown
    /\ IdleProtocol
    /\ IdleFunctions
    /\ panicked = FALSE
    /\ \E population \in 1..MaxSinglePopulation : \E start_infections \in StartingInfections :
         /\ total(start_infections) <= population
         /\ region = set_starting_infections(
                       [i \in 1..population |-> new_with_id(0, FALSE, Normal)],
                       start_infections)
         /\ counts = counts_at_start(population, start_infections)
         /\ travel = [population |-> population, removed |-> 0, assimilated |-> 0]
         /\ run = [start_infections |-> start_infections, started |-> TRUE,
                   ended |-> FALSE, simulation_ended |-> 0,
                   run_mode |-> "Standalone", terminated |-> FALSE,
                   lockdown |-> [locked_down |-> FALSE, zero_infection_hour |-> 0]]

(* One pass of run_single_engine's hour loop; leaving the loop, by the break or *)
(* by the last hour, emits simulation_ended.                                   *)
SimulateSingleHour ==
    /\ ~panicked
    /\ ~run.ended
    /\ run.run_mode # "MultiEngine"
    /\ simulation_hour < MaxSingleHour
    /\ simulation_hour' = simulation_hour + 1
    /\ UNCHANGED <<dsmVars, citizen, mapVars, exposureVars, lockdownVars, protocolVars, travel,
                 functionVars>>
    /\ IF Len(region) = 0
       THEN /\ panicked' = TRUE            \* panic!("No citizens!")
            /\ counts' = increment_hour(counts)
            /\ UNCHANGED <<region, run>>
       ELSE \E outs \in simulate_region(region, simulation_hour + 1) :
              LET after == [i \in 1..Len(outs) |-> outs[i].c]
                  counted == count_citizens(clear(increment_hour(counts)), after)
              IN  IF \E i \in 1..Len(outs) : outs[i].panic
                  THEN /\ panicked' = TRUE
                       /\ region' = after
                       /\ counts' = increment_hour(counts)
                       /\ UNCHANGED run
                  ELSE /\ panicked' = FALSE
                       /\ counts' = counted
                       /\ region' \in
                            {r \in [1..Len(after) -> UNION {vaccinate(after[i]) : i \in 1..Len(after)}] :
                               \A i \in 1..Len(after) : r[i] \in vaccinate(after[i])}
                       /\ LET leaves == \/ stop_simulation(run.run_mode, counted)
                                        \/ simulation_hour + 1 = MaxSingleHour
                          IN  run' = [run EXCEPT
                                        !.ended = leaves,
                                        !.simulation_ended = IF leaves THEN @ + 1 ELSE @]

NextSingle == SimulateSingleHour

SpecSingle == InitSingle /\ [][NextSingle]_vars

SpecSingleFair == SpecSingle /\ WF_vars(SimulateSingleHour)

(* The same region under each run mode. A region of run_multi_engine with   *)
(* nobody to exchange travellers with: a tick at hour 1 and at the commute  *)
(* hours, which may be the terminate tick; process_interventions leaves the *)
(* city locked down or not.                                                 *)

RunModes == {"Standalone", "SingleDaemon", "MultiEngine"}

InitModes ==
    /\ IdleDSM
    /\ IdleMap
    /\ IdleCitizen
    /\ IdleExposure
    /\ IdleLockdown
    /\ IdleProtocol
    /\ IdleFunctions
    /\ panicked = FALSE
    /\ \E population \in 1..MaxSinglePopulation : \E start_infections \in StartingInfections :
       \E run_mode \in RunModes :
         /\ total(start_infections) <= population
         /\ region = set_starting_infections(
                       [i \in 1..population |-> new_with_id(0, FALSE, Normal)],
                       start_infections)
         /\ counts = counts_at_start(population, start_infections)
         /\ travel = [population |-> population, removed |-> 0, assimilated |-> 0]
         /\ run = [start_infections |-> start_infections, started |-> TRUE,
                   ended |-> FALSE, simulation_ended |-> 0,
                   run_mode |-> run_mode, terminated |-> FALSE,
                   lockdown |-> [locked_down |-> FALSE, zero_infection_hour |-> 0]]

(* One pass of run_multi_engine's hour loop for this region: the tick, the  *)
(* simulation, the interventions, stop_simulation; leaving the loop emits   *)
(* simulation_ended.                                                        *)
SimulateMultiHour ==
    /\ ~panicked
    /\ ~run.ended
    /\ run.run_mode = "MultiEngine"
    /\ simulation_hour < MaxSingleHour
    /\ simulation_hour' = simulation_hour + 1
    /\ UNCHANGED <<dsmVars, citizen, mapVars, exposureVars, lockdownVars, protocolVars, travel,
                 functionVars>>
    /\ \E terminate_ \in IF simulation_hour + 1 = 1 \/ is_commute_hour(simulation_hour + 1)
                          THEN BOOLEAN ELSE {FALSE} :
         IF terminate_
         THEN /\ run' = [run EXCEPT !.ended = TRUE, !.terminated = TRUE,
                                    !.simulation_ended = @ + 1]
              /\ UNCHANGED <<panicked, counts, region>>
         ELSE IF Len(region) = 0
         THEN /\ panicked' = TRUE            \* panic!("No citizens!")
              /\ counts' = increment_hour(counts)
              /\ UNCHANGED <<region, run>>
         ELSE \E outs \in simulate_region(region, simulation_hour + 1) :
                LET after == [i \in 1..Len(outs) |-> outs[i].c]
                    counted == count_citizens(clear(increment_hour(counts)), after)
                IN  IF \E i \in 1..Len(outs) : outs[i].panic
                    THEN /\ panicked' = TRUE
                         /\ region' = after
                         /\ counts' = increment_hour(counts)
                         /\ UNCHANGED run
                    ELSE /\ panicked' = FALSE
                         /\ counts' = counted
                         /\ region' \in
                              {r \in [1..Len(after) -> UNION {vaccinate(after[i]) : i \in 1..Len(after)}] :
                                 \A i \in 1..Len(after) : r[i] \in vaccinate(after[i])}
                         /\ \E locked_down \in BOOLEAN :
                              LET lock_down_details ==
                                    [run.lockdown EXCEPT !.locked_down = locked_down]
                                  leaves == \/ stop_simulation(run.run_mode, counted)
                                            \/ simulation_hour + 1 = MaxSingleHour
                              IN  run' = [run EXCEPT
                                     !.lockdown = stop_simulation_lockdown(
                                                     lock_down_details, run.run_mode, counted),
                                     !.ended = leaves,
                                     !.simulation_ended = IF leaves THEN @ + 1 ELSE @]

NextModes == SimulateSingleHour \/ SimulateMultiHour

SpecModes == InitModes /\ [][NextModes]_vars

----------------------------------------------------------------------------
(* The city under lockdown: where the routine takes a citizen's cell, by     *)
(* area, when lock_city and unlock_city set and clear its isolation.         *)

MaxLockdownHour == 30

Areas == {"home", "housing", "transport", "work", "hospital"}

can_move_ignoring_isolation(c, isolated) == can_move(c)

(* Citizen::can_move, the isolation flag included *)
can_move_isolated(c, isolated) == can_move(c) /\ ~isolated

(* Citizen::move_agent_from: a vacant neighbour within current_area, or the cell *)
move_agent_from(c, isolated, cell) ==
    IF ~can_move_isolated(c, isolated) THEN {cell} ELSE {c.current_area, cell}

goto_area_unchecked(c, isolated, cell, target_area) ==
    IF c.work_status.tag # "NA" THEN {target_area, cell} ELSE {c.current_area, cell}

(* Citizen::goto_area: a random point of the target if vacant, or the cell *)
goto_area(c, isolated, cell, target_area) ==
    LET override_movement ==
          /\ c.work_status.tag \in {"Normal", "Essential"}
          /\ cell = "work" /\ target_area = "home"
          /\ (is_mild_symptomatic(c.state_machine) \/ is_infected_severe(c.state_machine))
    IN  IF ~can_move_isolated(c, isolated) /\ ~override_movement THEN {cell}
        ELSE IF c.work_status.tag # "NA" THEN {target_area, cell}
        ELSE move_agent_from(c, isolated, cell)

(* the cell perform_movements returns, by work status and hour of the day *)
perform_movements_cell(c, isolated, cell, hour_of_day, simulation_hr) ==
    CASE c.work_status.tag \in {"Normal", "Essential"} ->
           IF hour_of_day \in {ROUTINE_TRAVEL_START_TIME, ROUTINE_TRAVEL_END_TIME}
           THEN IF c.uses_public_transport THEN goto_area(c, isolated, cell, "transport")
                ELSE move_agent_from(c, isolated, cell)
           ELSE IF hour_of_day = ROUTINE_WORK_TIME THEN goto_area(c, isolated, cell, "work")
           ELSE IF hour_of_day = ROUTINE_WORK_END_TIME THEN goto_area(c, isolated, cell, "home")
           ELSE move_agent_from(c, isolated, cell)
      [] c.work_status.tag = "HospitalStaff" ->
           LET work_start_at == c.work_status.work_start_at
               since == saturating_sub(simulation_hr, work_start_at)
           IN  IF since = HOURS_IN_A_DAY * QUARANTINE_DAYS THEN {cell}
               ELSE IF since = HOURS_IN_A_DAY * QUARANTINE_DAYS * 2
               THEN goto_area(c, isolated, cell, "home")
               ELSE IF hour_of_day = ROUTINE_WORK_TIME
               THEN IF c.current_area # "hospital" /\ work_start_at <= simulation_hr
                    THEN goto_area(c, isolated, cell, "hospital")
                    ELSE {cell}
               ELSE IF hour_of_day = ROUTINE_WORK_END_TIME THEN {cell}
               ELSE IF ~c.work_quarantined /\ can_move_isolated(c, isolated)
                    THEN move_agent_from(c, isolated, cell)
                    ELSE {cell}
      [] c.work_status.tag = "NA" ->
           IF hour_of_day = ROUTINE_WORK_TIME THEN goto_area(c, isolated, cell, "housing")
           ELSE IF hour_of_day = NON_WORKING_TRAVEL_END_TIME
           THEN goto_area(c, isolated, cell, "home")
           ELSE move_agent_from(c, isolated, cell)

(* the cell the routine returns for citizen c, that leaves the routine as after *)
routine_cell(c, after, isolated, cell, simulation_hour_) ==
    LET hour_of_day == simulation_hour_ % NUMBER_OF_HOURS
    IN  IF hour_of_day = ROUTINE_START_TIME
        THEN IF is_infected_severe(c.state_machine) /\ ~c.hospitalized
             THEN IF after.hospitalized THEN {"hospital"}   \* goto_hospital, a vacant bed
                  ELSE {"home", cell}                       \* no bed, or not to be hospitalized
             ELSE {cell}
        ELSE IF hour_of_day \in SLEEP_START_TIME..SLEEP_END_TIME THEN {cell}
        ELSE IF hour_of_day = ROUTINE_END_TIME
        THEN IF is_infected(c.state_machine) /\ after.state_machine.state = Recovered
             THEN {"home", cell}                            \* move_agent to a point of home
             ELSE {cell}
        ELSE perform_movements_cell(c, isolated, cell, hour_of_day, simulation_hour_)

(* lock_city, for this citizen *)
lock_city(c) == ~(c.work_status = Essential)

InitLockdown ==
    /\ IdleDSM
    /\ IdleMap
    /\ IdleCounts
    /\ IdleExposure
    /\ IdleSingle
    /\ IdleLockdown
    /\ IdleProtocol
    /\ IdleFunctions
    /\ panicked = FALSE
    /\ simulation_hour = 0
    /\ \E is_working \in BOOLEAN, uses_public_transport \in BOOLEAN,
          m \in {new, set_mild_symptomatic(new), set_severe_infected(new)} :
         \E derived \in derive_work_status(is_working) :
           \E work_status \in assign_essential_worker(derived) :
             /\ uses_public_transport => is_working
             /\ citizen = [new_with_id(0, uses_public_transport, work_status)
                              EXCEPT !.state_machine = m]

(* One pass of the hour loop for this citizen: simulate, then process_interventions *)
(* locks the city, unlocks it, or leaves it.                                       *)
SimulateUnderLockdown ==
    /\ ~panicked
    /\ simulation_hour < MaxLockdownHour
    /\ simulation_hour' = simulation_hour + 1
    /\ UNCHANGED <<dsmVars, mapVars, countsVars, exposureVars, singleVars, protocolVars,
                 functionVars>>
    /\ \E out \in routine(citizen, simulation_hour + 1) :
         /\ panicked' = out.panic
         /\ citizen' = out.c
         /\ IF out.panic THEN UNCHANGED lockdown
            ELSE \E cell \in routine_cell(citizen, out.c, lockdown.isolated, lockdown.cell,
                                          simulation_hour + 1) :
                 \E intervention \in {"none", "lock", "unlock"} :
                   CASE intervention = "lock" /\ ~lockdown.locked ->
                          lockdown' = [cell |-> cell, isolated |-> lock_city(out.c),
                                       locked |-> TRUE, locked_at |-> simulation_hour + 1,
                                       cell_when_locked |-> cell]
                     [] intervention = "unlock" /\ lockdown.locked ->
                          lockdown' = [lockdown EXCEPT !.cell = cell, !.isolated = FALSE,
                                                       !.locked = FALSE]
                     [] OTHER ->
                          lockdown' = [lockdown EXCEPT !.cell = cell]

NextLockdown == SimulateUnderLockdown

SpecLockdown == InitLockdown /\ [][NextLockdown]_vars

----------------------------------------------------------------------------
(* The regions of a multi-region run (run_multi_engine), their bus and the   *)
(* coordinator that ticks them. A citizen is its id here; the disease plays  *)
(* no part in the protocol.                                                  *)

Present(eng) == {a \in Agents : eng.map[a] > 0}
current_population(map) ==
    LET RECURSIVE Sum(_)
        Sum(S) == IF S = {} THEN 0
                  ELSE LET a == CHOOSE x \in S : TRUE IN map[a] + Sum(S \ {a})
    IN  Sum(Agents)

(* get_tick: the ticks it passes over *)
get_tick_first(tick, simulation_hour_) == FALSE

get_tick_discards(tick, simulation_hour_) == tick.hour < simulation_hour_

(* receive_tick: the tick it panics at *)
receive_tick_accepts_later(tick, simulation_hour_) == tick.hour < simulation_hour_

receive_tick_panics(tick, simulation_hour_) == tick.hour # simulation_hour_

(* the tick that breaks the loop of run_multi_engine *)
terminate_ignored(tick) == FALSE

terminate(tick) == tick.terminate

(* receive_commuters_from_region: the buckets it passes over *)
skips_bucket(message, engine_id) == message.travellers = {} /\ message.to = engine_id

(* the receive loops: one more bucket makes the count complete *)
receive_complete_early(expected, received) == received + 1 >= expected

receive_complete(expected, received) == expected = received

(* CitizenLocationMap::simulate: the travellers of the hour. Commuters that  *)
(* can move leave for work at travel start and for home at travel end; at a  *)
(* migration hour residents leave, as many as the plan's row allows.         *)
outgoing_commuters(config, eng, e) ==
    IF ~(config.commute_enabled /\ is_commute_hour(eng.hour)) THEN {{}}
    ELSE IF eng.hour % 24 = ROUTINE_TRAVEL_START_TIME
    THEN SUBSET {a \in Present(eng) \cap Commuters : Home(a) = e}
    ELSE SUBSET {a \in Present(eng) \cap Commuters : Home(a) # e}

destination(a, hr) == IF hr % 24 = ROUTINE_TRAVEL_START_TIME THEN Work(a) ELSE Home(a)

(* alloc_outgoing_to_regions: who goes where, at most the plan's entry each *)
outgoing_migrators(config, eng, e) ==
    IF ~(config.migration_enabled /\ is_migration_hour(eng.hour)) THEN {[a \in {} |-> 0]}
    ELSE UNION {
           {to \in [pool -> {j \in Regions : j # e /\ config.migration[e][j] > 0}] :
              \A j \in Regions :
                 Cardinality({a \in pool : to[a] = j}) <= config.migration[e][j]}
           : pool \in SUBSET (Present(eng) \cap Residents)}

Bucket(from, to, travellers, hr) ==
    [to |-> to, travellers |-> travellers, from |-> from, hour |-> hr, redelivered |-> FALSE]

(* every bucket on one topic that every region reads *)
send_commuters_to_all(channels, e, commuters, hr) ==
    LET RECURSIVE buckets_from(_)
        buckets_from(r) ==
           IF r > NumRegions THEN <<>>
           ELSE <<Bucket(e, r, {a \in commuters : destination(a, hr) = r}, hr)>>
                \o buckets_from(r + 1)
    IN  [r \in Regions |-> channels[r] \o buckets_from(1)]

(* get_commuters_by_region and send_commuters: a bucket for every region *)
send_commuters(channels, e, commuters, hr) ==
    [r \in Regions |->
       Append(channels[r],
              Bucket(e, r, {a \in commuters : destination(a, hr) = r}, hr))]

(* send_migrators: a bucket for every region of the plan's row *)
send_migrators(config, channels, e, to, hr) ==
    [r \in Regions |->
       IF r # e /\ config.migration[e][r] > 0
       THEN Append(channels[r], Bucket(e, r, {a \in DOMAIN to : to[a] = r}, hr))
       ELSE channels[r]]

Participated(simulated, eng, e) ==
    [a \in Agents |->
       IF eng.map[a] > 0
       THEN [engine |-> e, hour |-> eng.hour,
             before |-> [engine |-> simulated[a].engine, hour |-> simulated[a].hour]]
       ELSE simulated[a]]

(* CitizenLocationMap::remove_commuters, remove_migrators *)
remove_commuters(map, outgoing) ==
    [a \in Agents |-> IF a \in outgoing /\ map[a] > 0 THEN map[a] - 1 ELSE map[a]]

(* CitizenLocationMap::assimilate_commuters, assimilate_migrators *)
assimilate_commuters(map, incoming) == [a \in Agents |-> map[a] + incoming[a]]

steps_ack_first(exchanged, acked) ==
    (IF acked THEN <<"ack">> ELSE <<>>)
    \o (IF exchanged THEN <<"received", "removed", "assimilated">> ELSE <<>>)
    \o <<"counts_updated", "interventions">>

(* the steps of the loop body after simulate and the sends, in its order *)
steps_after_send(exchanged, acked) ==
    (IF exchanged THEN <<"received", "removed", "assimilated">> ELSE <<>>)
    \o <<"counts_updated", "interventions">>
    \o (IF acked THEN <<"ack">> ELSE <<>>)

(* the end of a pass of the loop: what was sent out leaves the map, what came *)
(* in joins it, then counts_updated, process_interventions and send_ack       *)
Commit(config, eng, e) ==
    LET map == assimilate_commuters(remove_commuters(eng.map, eng.outgoing), eng.incoming)
        acked == eng.hour = 1 \/ is_boundary_hour(config, eng.hour)
        exchanged == eng.tick # NoTick
    IN  [eng EXCEPT
           !.map = map,
           !.counts = [hour |-> eng.hour, population |-> current_population(map)],
           !.outgoing = {},
           !.incoming = NoAgents,
           !.log = eng.log \o steps_after_send(exchanged, acked),
           !.hour = IF eng.hour = MaxEngineHour THEN @ ELSE @ + 1,
           !.pc = IF eng.hour = MaxEngineHour THEN "ended" ELSE "tick",
           !.simulation_ended = IF eng.hour = MaxEngineHour THEN @ + 1 ELSE @]

Acks(config, eng, e) ==
    IF eng.hour = 1 \/ is_boundary_hour(config, eng.hour)
    THEN {[engine_id |-> e, hour |-> eng.hour]} ELSE {}

(* producer.send_ack's results: Ok, or Err while the bus has errors to give *)
send_ack_results(config, eng) ==
    IF (eng.hour = 1 \/ is_boundary_hour(config, eng.hour)) /\ bus.ack_failures > 0
    THEN {"Ok", "Err"} ELSE {"Ok"}

(* the end of a pass of the loop with send_ack's match on the result: Err is *)
(* panic!("Failed while sending acknowledgement")                            *)
CommitAndAck(config, eng, e, result) ==
    IF result = "Ok" THEN Commit(config, eng, e)
    ELSE [Commit(config, eng, e) EXCEPT
            !.log = eng.log \o steps_after_send(eng.tick # NoTick, FALSE) \o <<"panic">>,
            !.hour = eng.hour,
            !.pc = "panicked",
            !.simulation_ended = eng.simulation_ended]

InitProtocol ==
    /\ IdleDSM
    /\ IdleMap
    /\ IdleCitizen
    /\ IdleCounts
    /\ IdleExposure
    /\ IdleSingle
    /\ IdleLockdown
    /\ IdleFunctions
    /\ panicked = FALSE
    /\ engines = [e \in Regions |-> Engine_new(e)]
    /\ coordinator = [ticked |-> 0, terminated |-> FALSE, simulated |-> NotSimulated]
    /\ plan \in Plans

InitRegions ==
    /\ InitProtocol
    /\ bus = [ticks |-> [e \in Regions |-> <<>>], commute |-> [e \in Regions |-> <<>>],
              migration |-> [e \in Regions |-> <<>>], acks |-> {}, redeliveries |-> 0,
              failed |-> {}, ack_failures |-> 0]

InitRedelivery ==
    /\ InitProtocol
    /\ bus = [ticks |-> [e \in Regions |-> <<>>], commute |-> [e \in Regions |-> <<>>],
              migration |-> [e \in Regions |-> <<>>], acks |-> {},
              redeliveries |-> MaxRedelivered, failed |-> {}, ack_failures |-> 0]

protocolFrame ==
    <<dsmVars, panicked, citizenVars, mapVars, countsVars, exposureVars, singleVars,
      lockdownVars, functionVars, plan>>

(* simulate and the sends of one hour, then the receive loop if it has to wait *)
Simulate(e, tick, read) ==
    LET eng == [engines[e] EXCEPT !.tick = tick, !.tick_read = read] IN
    \E commuters \in outgoing_commuters(plan, eng, e) :
    \E to \in outgoing_migrators(plan, eng, e) :
      LET exchanges == tick # NoTick
          commute_hour == exchanges /\ plan.commute_enabled /\ is_commute_hour(tick.hour)
          migration_hour == exchanges /\ plan.migration_enabled /\ is_migration_hour(tick.hour)
          expected == IF commute_hour THEN commute_incoming_regions_count(plan, e)
                      ELSE IF migration_hour THEN migration_incoming_regions_count(plan, e)
                      ELSE 0
          simulated == [eng EXCEPT
                          !.counts = [hour |-> eng.hour, population |-> current_population(eng.map)],
                          !.outgoing = commuters \cup DOMAIN to,
                          !.incoming = NoAgents,
                          !.received = 0,
                          !.log = (IF exchanges THEN <<"tick">> ELSE <<>>)
                                  \o <<"simulate">>
                                  \o (IF exchanges THEN <<"sent">> ELSE <<>>)]
      IN  /\ IF current_population(eng.map) = 0
             THEN /\ engines' = [engines EXCEPT ![e] = [eng EXCEPT !.pc = "panicked",
                                      !.counts = [@ EXCEPT !.hour = eng.hour]]]
                  /\ bus' = [bus EXCEPT !.ticks = IF exchanges THEN [@ EXCEPT ![e] = Tail(@)] ELSE @]
                  /\ UNCHANGED coordinator
             ELSE \E result \in send_ack_results(plan, eng) :
                  /\ engines' = [engines EXCEPT ![e] =
                        IF receive_complete(expected, 0)
                        THEN CommitAndAck(plan, simulated, e, result)
                        ELSE [simulated EXCEPT
                                !.pc = IF commute_hour THEN "commuters" ELSE "migrators"]]
                  /\ bus' = [bus EXCEPT
                        !.ticks = IF exchanges THEN [@ EXCEPT ![e] = Tail(@)] ELSE @,
                        !.commute = IF commute_hour
                                    THEN send_commuters(@, e, commuters, tick.hour) ELSE @,
                        !.migration = IF migration_hour
                                      THEN send_migrators(plan, @, e, to, tick.hour) ELSE @,
                        !.acks = IF receive_complete(expected, 0) /\ result = "Ok"
                                 THEN @ \cup Acks(plan, eng, e) ELSE @,
                        !.ack_failures = IF receive_complete(expected, 0) /\ result = "Err"
                                         THEN @ - 1 ELSE @]
                  /\ coordinator' = [coordinator EXCEPT
                        !.simulated = Participated(@, eng, e)]

(* a pass of the loop at an hour that waits for no tick *)
SimulateHourOfRegion(e) ==
    /\ engines[e].pc = "tick"
    /\ ~is_boundary_hour(plan, engines[e].hour)
    /\ Simulate(e, NoTick, engines[e].tick_read)
    /\ UNCHANGED protocolFrame

(* receive_tick at a boundary hour: the next tick of the stream *)
ReadTick(e) ==
    /\ engines[e].pc = "tick"
    /\ is_boundary_hour(plan, engines[e].hour)
    /\ bus.ticks[e] # <<>>
    /\ UNCHANGED protocolFrame
    /\ LET tick == Head(bus.ticks[e])
           read == [hour |-> tick.hour, at |-> engines[e].hour]
       IN  IF get_tick_discards(tick, engines[e].hour)
           THEN /\ bus' = [bus EXCEPT !.ticks[e] = Tail(@)]
                /\ engines' = [engines EXCEPT ![e].tick_read = read]
                /\ UNCHANGED coordinator
           ELSE IF receive_tick_panics(tick, engines[e].hour)
           THEN /\ bus' = [bus EXCEPT !.ticks[e] = Tail(@)]
                /\ engines' = [engines EXCEPT ![e].tick_read = read, ![e].pc = "panicked"]
                /\ UNCHANGED coordinator
           ELSE IF terminate(tick)
           THEN /\ bus' = [bus EXCEPT !.ticks[e] = Tail(@)]
                /\ engines' = [engines EXCEPT ![e].tick_read = read, ![e].pc = "ended",
                                               ![e].simulation_ended = @ + 1]
                /\ UNCHANGED coordinator
           ELSE Simulate(e, tick, read)

(* the receive loop of receive_commuters: the next message of the stream *)
ReadCommuters(e) ==
    /\ engines[e].pc = "commuters"
    /\ bus.commute[e] # <<>>
    /\ UNCHANGED <<protocolFrame, coordinator>>
    /\ LET message == Head(bus.commute[e])
           eng == engines[e]
           expected == commute_incoming_regions_count(plan, e)
       IN  IF skips_bucket(message, e)
           THEN /\ bus' = [bus EXCEPT !.commute[e] = Tail(@)]
                /\ UNCHANGED engines
           ELSE LET counted == [eng EXCEPT
                      !.incoming = [a \in Agents |->
                                      @[a] + IF a \in message.travellers THEN 1 ELSE 0],
                      !.received = @ + 1,
                      !.message_read = [kind |-> "commute", hour |-> message.hour,
                                        at |-> eng.hour, redelivered |-> message.redelivered]]
                IN  \E result \in send_ack_results(plan, eng) :
                    /\ engines' = [engines EXCEPT ![e] =
                          IF receive_complete(expected, counted.received)
                          THEN CommitAndAck(plan, counted, e, result) ELSE counted]
                    /\ bus' = [bus EXCEPT
                          !.commute[e] = Tail(@),
                          !.acks = IF receive_complete(expected, counted.received)
                                      /\ result = "Ok"
                                   THEN @ \cup Acks(plan, eng, e) ELSE @,
                          !.ack_failures = IF receive_complete(expected, counted.received)
                                              /\ result = "Err"
                                           THEN @ - 1 ELSE @]

(* the receive loop of receive_migrators: the next message of the stream *)
ReadMigrators(e) ==
    /\ engines[e].pc = "migrators"
    /\ bus.migration[e] # <<>>
    /\ UNCHANGED <<protocolFrame, coordinator>>
    /\ LET message == Head(bus.migration[e])
           eng == engines[e]
           expected == migration_incoming_regions_count(plan, e)
           counted == [eng EXCEPT
                      !.incoming = [a \in Agents |->
                                      @[a] + IF a \in message.travellers THEN 1 ELSE 0],
                      !.received = @ + 1,
                      !.message_read = [kind |-> "migration", hour |-> message.hour,
                                        at |-> eng.hour, redelivered |-> message.redelivered]]
       IN  \E result \in send_ack_results(plan, eng) :
           /\ engines' = [engines EXCEPT ![e] =
                 IF receive_complete(expected, counted.received)
                 THEN CommitAndAck(plan, counted, e, result) ELSE counted]
           /\ bus' = [bus EXCEPT
                 !.migration[e] = Tail(@),
                 !.acks = IF receive_complete(expected, counted.received) /\ result = "Ok"
                          THEN @ \cup Acks(plan, eng, e) ELSE @,
                 !.ack_failures = IF receive_complete(expected, counted.received)
                                     /\ result = "Err"
                                  THEN @ - 1 ELSE @]

(* the hours the coordinator ticks: hour 1 and the hours the regions wait at *)
TickHours == {hr \in 1..MaxEngineHour : hr = 1 \/ is_boundary_hour(plan, hr)}

(* the coordinator: the next tick to every region, once every region has *)
(* acknowledged the last one                                             *)
SendTick ==
    /\ ~coordinator.terminated
    /\ \E hr \in TickHours :
         /\ hr > coordinator.ticked
         /\ \A between \in TickHours : ~(coordinator.ticked < between /\ between < hr)
         /\ coordinator.ticked > 0 =>
              \A e \in Regions : [engine_id |-> e, hour |-> coordinator.ticked] \in bus.acks
         /\ \E last \in BOOLEAN :
              /\ bus' = [bus EXCEPT !.ticks =
                           [e \in Regions |-> Append(@[e], [hour |-> hr, terminate |-> last])]]
              /\ coordinator' = [coordinator EXCEPT !.ticked = hr, !.terminated = last]
    /\ UNCHANGED <<protocolFrame, engines>>

(* a coordinator that keeps to no barrier: any tick next in the stream of a *)
(* region that waits for one                                               *)
TickArrives(e) ==
    /\ engines[e].pc = "tick"
    /\ is_boundary_hour(plan, engines[e].hour)
    /\ bus.ticks[e] = <<>>
    /\ \E hr \in TickHours : \E last \in BOOLEAN :
         bus' = [bus EXCEPT !.ticks[e] = Append(@, [hour |-> hr, terminate |-> last])]
    /\ UNCHANGED <<protocolFrame, engines, coordinator>>

(* at-least-once delivery: the bus delivers the message at the head of a *)
(* stream a second time                                                  *)
Redelivered(stream) ==
    <<Head(stream), [Head(stream) EXCEPT !.redelivered = TRUE]>> \o Tail(stream)

Redeliver(e) ==
    /\ bus.redeliveries > 0
    /\ \/ /\ bus.commute[e] # <<>>
          /\ bus' = [bus EXCEPT !.commute[e] = Redelivered(@), !.redeliveries = @ - 1]
       \/ /\ bus.migration[e] # <<>>
          /\ bus' = [bus EXCEPT !.migration[e] = Redelivered(@), !.redeliveries = @ - 1]
       \/ /\ bus.ticks[e] # <<>>
          /\ bus' = [bus EXCEPT !.ticks[e] = <<Head(@)>> \o @, !.redeliveries = @ - 1]
    /\ UNCHANGED <<protocolFrame, engines, coordinator>>

(* a delivery failure: producer.send returns a future that resolves to the *)
(* error, and the bucket never reaches the stream of its topic; until it is *)
(* read a bucket that will arrive is the same to every region as one that   *)
(* will not                                                                 *)
Without(stream, i) == SubSeq(stream, 1, i - 1) \o SubSeq(stream, i + 1, Len(stream))

DeliveryFails(e) ==
    /\ Cardinality(bus.failed) < MaxFailed
    /\ \/ \E i \in 1..Len(bus.commute[e]) :
            bus' = [bus EXCEPT !.commute[e] = Without(@, i),
                               !.failed = @ \cup {[kind |-> "commute", from |-> bus.commute[e][i].from,
                                                   to |-> e, hour |-> bus.commute[e][i].hour]}]
       \/ \E i \in 1..Len(bus.migration[e]) :
            bus' = [bus EXCEPT !.migration[e] = Without(@, i),
                               !.failed = @ \cup {[kind |-> "migration", from |-> bus.migration[e][i].from,
                                                   to |-> e, hour |-> bus.migration[e][i].hour]}]
    /\ UNCHANGED <<protocolFrame, engines, coordinator>>

EngineStep(e) ==
    \/ SimulateHourOfRegion(e)
    \/ ReadTick(e)
    \/ ReadCommuters(e)
    \/ ReadMigrators(e)

NextRegions ==
    \/ \E e \in Regions : EngineStep(e)
    \/ SendTick

SpecRegions == InitRegions /\ [][NextRegions]_vars

NextRedelivery ==
    \/ \E e \in Regions : EngineStep(e)
    \/ SendTick
    \/ \E e \in Regions : Redeliver(e)

SpecRedelivery == InitRedelivery /\ [][NextRedelivery]_vars

NextTicks ==
    \/ \E e \in Regions : EngineStep(e)
    \/ \E e \in Regions : TickArrives(e)

SpecTicks == InitRegions /\ [][NextTicks]_vars

NextDelivery ==
    \/ \E e \in Regions : EngineStep(e)
    \/ SendTick
    \/ \E e \in Regions : DeliveryFails(e)

SpecDelivery == InitRegions /\ [][NextDelivery]_vars

(* the regions when producer.send_ack can return an error *)
InitAcks ==
    /\ InitProtocol
    /\ bus = [ticks |-> [e \in Regions |-> <<>>], commute |-> [e \in Regions |-> <<>>],
              migration |-> [e \in Regions |-> <<>>], acks |-> {}, redeliveries |-> 0,
              failed |-> {}, ack_failures |-> MaxAckFailures]

SpecAcks == InitAcks /\ [][NextRegions]_vars

(* a run of either mode to its end: Epidemiology::run takes the standalone *)
(* loop or the loop of a region                                            *)
Standalone == Len(region) > 0

InitRun == InitSingle \/ InitRegions

NextRun ==
    \/ Standalone /\ SimulateSingleHour
    \/ ~Standalone /\ \E e \in Regions : EngineStep(e)
    \/ ~Standalone /\ \E e \in Regions : TickArrives(e)

SpecRun == InitRun /\ [][NextRun]_vars

----------------------------------------------------------------------------
(* The orchestrator's TravelPlan: validate_regions and update_with_lockdowns. *)
(* A region is named by a number, the plan's regions are engine1..engine3.    *)

NumPlanRegions == 3          \* the regions of the plan
MaxEntry == 1                \* the largest entry of the plan's matrix
MaxLockdownTravellers == 2   \* the largest configured lockdown_travellers

PlanRegions == 1..NumPlanRegions

(* the plans of a config: nobody travels from a region to itself *)
Matrices ==
    {m \in [PlanRegions -> [PlanRegions -> 0..MaxEntry]] : \A i \in PlanRegions : m[i][i] = 0}

(* serde: lockdown_travellers is #[serde(default)] *)
from_str(matrix, configured, value) ==
    [regions |-> [i \in PlanRegions |-> i], matrix |-> matrix,
     lockdown_travellers |-> IF configured THEN value ELSE 0]

(* the statuses the acks of the regions add up to *)
LockdownStatuses == [PlanRegions -> BOOLEAN]

(* regions.iter().position(|i| i.eq(region)).unwrap() *)
position(regions, region_) ==
    CHOOSE i \in 1..Len(regions) :
       regions[i] = region_ /\ \A k \in 1..(i - 1) : regions[k] # region_

lockdown_value_toggled(plan_, val) == IF val > 0 THEN 0 ELSE plan_.lockdown_travellers

(* apply_lockdown: what it leaves in a cell of the row or column *)
lockdown_value(plan_, val) == IF val > 0 THEN plan_.lockdown_travellers ELSE val

apply_lockdown_to_row(plan_, region_) ==
    LET index == position(plan_.regions, region_)
    IN  [plan_ EXCEPT !.matrix =
           [i \in 1..Len(plan_.regions) |-> [j \in 1..Len(plan_.regions) |->
              IF i = index THEN lockdown_value(plan_, plan_.matrix[i][j])
              ELSE plan_.matrix[i][j]]]]

apply_lockdown(plan_, region_) ==
    LET index == position(plan_.regions, region_)
    IN  [plan_ EXCEPT !.matrix =
           [i \in 1..Len(plan_.regions) |-> [j \in 1..Len(plan_.regions) |->
              IF i = index \/ j = index THEN lockdown_value(plan_, plan_.matrix[i][j])
              ELSE plan_.matrix[i][j]]]]

(* the locked regions in an order the iteration of the HashMap may take *)
LockedOrders(lockdown_status) ==
    LET locked == {k \in DOMAIN lockdown_status : lockdown_status[k]}
    IN  {order \in [1..Cardinality(locked) -> locked] :
            \A a, b \in 1..Cardinality(locked) : a # b => order[a] # order[b]}

(* update_with_lockdowns, the locked regions visited in the given order *)
update_with_lockdowns(plan_, locked_regions) ==
    LET RECURSIVE visit(_, _)
        visit(new_travel_plan, rest) ==
           IF rest = <<>> THEN new_travel_plan
           ELSE visit(apply_lockdown(new_travel_plan, Head(rest)), Tail(rest))
    IN  visit(plan_, locked_regions)

InitPlan ==
    /\ IdleDSM
    /\ IdleCitizen
    /\ IdleMap
    /\ IdleCounts
    /\ IdleExposure
    /\ IdleSingle
    /\ IdleLockdown
    /\ IdleProtocol
    /\ IdleTraveller
    /\ panicked = FALSE
    /\ \E matrix \in Matrices : \E configured \in BOOLEAN :
       \E value \in 0..MaxLockdownTravellers : \E lockdown_status \in LockdownStatuses :
         /\ ~configured => value = 0
         /\ orchestrator =
              [configured |-> configured,
               travel_plan |-> from_str(matrix, configured, value),
               lockdown_status |-> lockdown_status,
               op |-> "none", before |-> NoPlan, new_travel_plan |-> NoPlan,
               regions |-> <<>>, valid |-> FALSE]

planFrame ==
    <<dsmVars, panicked, citizenVars, mapVars, countsVars, exposureVars, singleVars,
      lockdownVars, protocolVars, traveller>>

(* travel_plan.update_with_lockdowns(&lockdown_status) *)
UpdateWithLockdowns ==
    /\ orchestrator.op = "none"
    /\ \E order \in LockedOrders(orchestrator.lockdown_status) :
         orchestrator' = [orchestrator EXCEPT
            !.op = "update_with_lockdowns",
            !.before = orchestrator.travel_plan,
            !.new_travel_plan = update_with_lockdowns(orchestrator.travel_plan, order)]
    /\ UNCHANGED planFrame

(* new_travel_plan.update_with_lockdowns(&lockdown_status) *)
UpdateAgain ==
    /\ orchestrator.op = "update_with_lockdowns"
    /\ \E order \in LockedOrders(orchestrator.lockdown_status) :
         orchestrator' = [orchestrator EXCEPT
            !.op = "update_again",
            !.before = orchestrator.new_travel_plan,
            !.new_travel_plan = update_with_lockdowns(orchestrator.new_travel_plan, order)]
    /\ UNCHANGED planFrame

NextPlan ==
    \/ UpdateWithLockdowns
    \/ UpdateAgain

SpecPlan == InitPlan /\ [][NextPlan]_vars

(* the lists of engine ids validate_regions is asked about: the plan's *)
(* regions and one more, in lists of up to one more than the plan has   *)
RegionLists ==
    UNION {[1..n -> 1..(NumPlanRegions + 1)] : n \in 0..(NumPlanRegions + 1)}

contains(regions, region_) == \E i \in 1..Len(regions) : regions[i] = region_

validate_regions(plan_, regions) ==
    /\ Len(regions) = Len(plan_.regions)
    /\ \A i \in 1..Len(regions) : contains(plan_.regions, regions[i])

InitValidate ==
    /\ InitPlan
    /\ ~orchestrator.configured
    /\ \A k \in PlanRegions : ~orchestrator.lockdown_status[k]

(* travel_plan.validate_regions(&regions) *)
ValidateRegions ==
    /\ orchestrator.op = "none"
    /\ \E regions \in RegionLists :
         orchestrator' = [orchestrator EXCEPT
            !.op = "validate_regions",
            !.before = orchestrator.travel_plan,
            !.regions = regions,
            !.valid = validate_regions(orchestrator.travel_plan, regions)]
    /\ UNCHANGED planFrame

NextValidate == ValidateRegions

SpecValidate == InitValidate /\ [][NextValidate]_vars

----------------------------------------------------------------------------
(* The commuters a region has collected in an hour, and the buckets         *)
(* get_commuters_by_region makes of them. An area is named by the region it *)
(* is in (its location_id); the plan's regions are engine1..engine3 and a   *)
(* commuter may live or work in a region the plan does not have.            *)

MaxCommuters == 2        \* the commuters simulate has collected
MaxCommuteHour == 31     \* the hours the buckets are made at

LocationIds == 1..(NumPlanRegions + 1)

(* outgoing_commuters: commuter k of the list has id k *)
CommuterLists ==
    UNION {{l \in [1..n -> [id : 1..n, home_location : LocationIds, work_location : LocationIds]] :
              \A k \in 1..n : l[k].id = k}
           : n \in 0..MaxCommuters}

(* the pushes of a commuter into the list for a region *)
pushes_to_home(commuter, region_, simulation_hour_) ==
    (IF simulation_hour_ % 24 = ROUTINE_TRAVEL_START_TIME /\ commuter.home_location = region_
     THEN <<commuter>> ELSE <<>>)
    \o (IF simulation_hour_ % 24 = ROUTINE_TRAVEL_END_TIME /\ commuter.work_location = region_
        THEN <<commuter>> ELSE <<>>)

pushes(commuter, region_, simulation_hour_) ==
    (IF simulation_hour_ % 24 = ROUTINE_TRAVEL_START_TIME /\ commuter.work_location = region_
     THEN <<commuter>> ELSE <<>>)
    \o (IF simulation_hour_ % 24 = ROUTINE_TRAVEL_END_TIME /\ commuter.home_location = region_
        THEN <<commuter>> ELSE <<>>)

(* a bucket that takes the first commuter for its region and no other *)
get_commuters_by_region_first_only(regions, commuters, simulation_hour_) ==
    LET RECURSIVE commuters_for_region(_, _)
        commuters_for_region(region_, rest) ==
           IF rest = <<>> THEN <<>>
           ELSE IF pushes(Head(rest), region_, simulation_hour_) # <<>>
           THEN pushes(Head(rest), region_, simulation_hour_)
           ELSE commuters_for_region(region_, Tail(rest))
    IN  [r \in 1..Len(regions) |->
           [to_engine_id |-> regions[r],
            commuters |-> commuters_for_region(regions[r], commuters)]]

get_commuters_by_region(regions, commuters, simulation_hour_) ==
    LET RECURSIVE commuters_for_region(_, _)
        commuters_for_region(region_, rest) ==
           IF rest = <<>> THEN <<>>
           ELSE pushes(Head(rest), region_, simulation_hour_)
                \o commuters_for_region(region_, Tail(rest))
    IN  [r \in 1..Len(regions) |->
           [to_engine_id |-> regions[r],
            commuters |-> commuters_for_region(regions[r], commuters)]]

InitCommute ==
    /\ IdleDSM
    /\ IdleCitizen
    /\ IdleMap
    /\ IdleCounts
    /\ IdleExposure
    /\ IdleSingle
    /\ IdleLockdown
    /\ IdleProtocol
    /\ IdleOrchestrator
    /\ panicked = FALSE
    /\ \E commuters \in CommuterLists :
         traveller = [op |-> "none", regions |-> [i \in PlanRegions |-> i],
                      commuters |-> commuters, simulation_hour |-> 0,
                      commuters_by_region |-> <<>>]

(* outgoing_commuters as simulate collects them in a run: citizens whose    *)
(* home and work lie in different regions of the commute plan               *)
InitOutgoing ==
    /\ IdleDSM
    /\ IdleCitizen
    /\ IdleMap
    /\ IdleCounts
    /\ IdleExposure
    /\ IdleSingle
    /\ IdleLockdown
    /\ IdleProtocol
    /\ IdleOrchestrator
    /\ panicked = FALSE
    /\ \E commuters \in CommuterLists :
         /\ \A k \in 1..Len(commuters) :
               /\ commuters[k].home_location \in PlanRegions
               /\ commuters[k].work_location \in PlanRegions
               /\ commuters[k].home_location # commuters[k].work_location
         /\ traveller = [op |-> "none", regions |-> [i \in PlanRegions |-> i],
                         commuters |-> commuters, simulation_hour |-> 0,
                         commuters_by_region |-> <<>>]

travellerFrame ==
    <<dsmVars, panicked, citizenVars, mapVars, countsVars, exposureVars, singleVars,
      lockdownVars, protocolVars, orchestrator>>

(* commute_plan.get_commuters_by_region(&outgoing_commuters, simulation_hour) *)
GetCommutersByRegion ==
    /\ traveller.op = "none"
    /\ \E hr \in 1..MaxCommuteHour :
         traveller' = [traveller EXCEPT
            !.op = "get_commuters_by_region",
            !.simulation_hour = hr,
            !.commuters_by_region =
                get_commuters_by_region(traveller.regions, traveller.commuters, hr)]
    /\ UNCHANGED travellerFrame

NextCommute == GetCommutersByRegion

SpecCommute == InitCommute /\ [][NextCommute]_vars
SpecOutgoing == InitOutgoing /\ [][NextCommute]_vars

----------------------------------------------------------------------------
(* A traveller handed over: the citizen a region sends as a Migrator or a   *)
(* Commuter, the JSON it is on the wire, and the citizen the peer makes of  *)
(* it with from_migrator or from_commuter. An area is the region it is in   *)
(* and its kind; region 1 sends, region 2 receives.                         *)

area(location_id, kind) == [location_id |-> location_id, kind |-> kind]

(* the machines a citizen may travel with *)
TravellerMachines ==
    StartingMachines
    \cup {increment_infection_day(set_severe_infected(new)),
          [state |-> Recovered, infection_day |-> 0],
          [state |-> Exposed(NUMBER_OF_HOURS), infection_day |-> 0]}

(* the citizens of region 1 that simulate may have picked *)
SentCitizens ==
    {[id |-> id, immunity |-> immunity, home_location |-> area(1, "housing"),
      work_location |-> work_location, vaccinated |-> vaccinated,
      uses_public_transport |-> uses_public_transport, working |-> working,
      hospitalized |-> hospitalized, state_machine |-> state_machine,
      isolated |-> isolated, current_area |-> area(1, "transport"),
      work_status |-> work_status, work_quarantined |-> work_quarantined] :
        id \in 1..2, immunity \in {-1, 1}, work_location \in {area(1, "work"), area(2, "work")},
        vaccinated \in BOOLEAN, uses_public_transport \in BOOLEAN, working \in BOOLEAN,
        hospitalized \in BOOLEAN, state_machine \in TravellerMachines, isolated \in BOOLEAN,
        work_status \in {Normal, Essential}, work_quarantined \in BOOLEAN}

(* Migrator::from(&Citizen), Commuter::from(&Citizen) *)
migrator_from(c) ==
    [id |-> c.id, immunity |-> c.immunity, vaccinated |-> c.vaccinated,
     uses_public_transport |-> c.uses_public_transport, state_machine |-> c.state_machine]

commuter_from(c) ==
    [id |-> c.id, immunity |-> c.immunity, home_location |-> c.home_location,
     work_location |-> c.work_location, vaccinated |-> c.vaccinated,
     uses_public_transport |-> c.uses_public_transport, state_machine |-> c.state_machine]

(* serde_json: an object is its members in order, an enum its variant and *)
(* the variant's fields; a Commuter has its two areas, a Migrator has none *)
to_string(value) ==
    LET state_to_json(state) ==
           CASE state.tag = "Exposed" -> <<"Exposed", <<state.at_hour>>>>
             [] state.tag = "Infected" -> <<"Infected", <<state.symptoms, state.severity>>>>
             [] OTHER -> <<state.tag, <<>>>>
        machine_to_json(m) ==
           <<<<"state", state_to_json(m.state)>>, <<"infection_day", m.infection_day>>>>
        area_to_json(a) == <<<<"location_id", a.location_id>>, <<"kind", a.kind>>>>
    IN  <<<<"id", value.id>>, <<"immunity", value.immunity>>>>
        \o (IF "home_location" \in DOMAIN value
            THEN <<<<"home_location", area_to_json(value.home_location)>>,
                   <<"work_location", area_to_json(value.work_location)>>>>
            ELSE <<>>)
        \o <<<<"vaccinated", value.vaccinated>>,
              <<"uses_public_transport", value.uses_public_transport>>,
              <<"state_machine", machine_to_json(value.state_machine)>>>>

from_json(json) ==
    LET member(object, key) ==
           object[CHOOSE i \in 1..Len(object) : object[i][1] = key][2]
        has(object, key) == \E i \in 1..Len(object) : object[i][1] = key
        state_from_json(state) ==
           CASE state[1] = "Exposed" -> Exposed(state[2][1])
             [] state[1] = "Infected" -> Infected(state[2][1], state[2][2])
             [] state[1] = "Recovered" -> Recovered
             [] state[1] = "Deceased" -> Deceased
             [] OTHER -> Susceptible
        machine_from_json(m) ==
           [state |-> state_from_json(member(m, "state")),
            infection_day |-> member(m, "infection_day")]
        area_from_json(a) == area(member(a, "location_id"), member(a, "kind"))
        migrator == [id |-> member(json, "id"), immunity |-> member(json, "immunity"),
                     vaccinated |-> member(json, "vaccinated"),
                     uses_public_transport |-> member(json, "uses_public_transport"),
                     state_machine |-> machine_from_json(member(json, "state_machine"))]
    IN  IF has(json, "home_location")
        THEN [id |-> migrator.id, immunity |-> migrator.immunity,
              home_location |-> area_from_json(member(json, "home_location")),
              work_location |-> area_from_json(member(json, "work_location")),
              vaccinated |-> migrator.vaccinated,
              uses_public_transport |-> migrator.uses_public_transport,
              state_machine |-> migrator.state_machine]
        ELSE migrator

from_migrator_susceptible(migrator, home_location, work_location, transport_location, current_area) ==
    [id |-> migrator.id, immunity |-> migrator.immunity, home_location |-> home_location,
     work_location |-> work_location, vaccinated |-> migrator.vaccinated,
     uses_public_transport |-> migrator.uses_public_transport, working |-> FALSE,
     hospitalized |-> FALSE, transport_location |-> transport_location,
     state_machine |-> new, isolated |-> FALSE,
     current_area |-> current_area, work_status |-> NA, work_quarantined |-> FALSE]

from_migrator(migrator, home_location, work_location, transport_location, current_area) ==
    [id |-> migrator.id, immunity |-> migrator.immunity, home_location |-> home_location,
     work_location |-> work_location, vaccinated |-> migrator.vaccinated,
     uses_public_transport |-> migrator.uses_public_transport, working |-> FALSE,
     hospitalized |-> FALSE, transport_location |-> transport_location,
     state_machine |-> migrator.state_machine, isolated |-> FALSE,
     current_area |-> current_area, work_status |-> NA, work_quarantined |-> FALSE]

from_commuter(commuter, transport_location, current_area) ==
    [id |-> commuter.id, immunity |-> commuter.immunity,
     home_location |-> commuter.home_location, work_location |-> commuter.work_location,
     vaccinated |-> commuter.vaccinated,
     uses_public_transport |-> commuter.uses_public_transport, working |-> TRUE,
     hospitalized |-> FALSE, transport_location |-> transport_location,
     state_machine |-> commuter.state_machine, isolated |-> FALSE,
     current_area |-> current_area, work_status |-> Normal, work_quarantined |-> FALSE]

InitHandover ==
    /\ IdleDSM
    /\ IdleCitizen
    /\ IdleMap
    /\ IdleCounts
    /\ IdleExposure
    /\ IdleSingle
    /\ IdleLockdown
    /\ IdleProtocol
    /\ IdleOrchestrator
    /\ panicked = FALSE
    /\ \E sent \in SentCitizens :
         traveller = [op |-> "none", sent |-> sent, wire |-> <<>>, assigned |-> <<>>,
                      received |-> sent]

(* assimilate_migrators: the receiver's own areas and a point of them *)
HandOverMigrator ==
    /\ traveller.op = "none"
    /\ \E transport_location \in 1..2 :
       \E current_area \in {area(2, "housing"), area(2, "work")} :
         LET wire == to_string(migrator_from(traveller.sent))
             home_location == area(2, "housing")
             work_location == area(2, "work")
         IN  traveller' = [traveller EXCEPT
                !.op = "from_migrator",
                !.wire = wire,
                !.assigned = <<home_location, work_location>>,
                !.received = from_migrator(from_json(wire), home_location,
                                           work_location, transport_location, current_area)]
    /\ UNCHANGED travellerFrame

(* assimilate_commuters *)
HandOverCommuter ==
    /\ traveller.op = "none"
    /\ \E transport_location \in 1..2 :
       \E current_area \in {area(2, "housing"), area(2, "work")} :
         LET wire == to_string(commuter_from(traveller.sent))
         IN  traveller' = [traveller EXCEPT
                !.op = "from_commuter",
                !.wire = wire,
                !.received = from_commuter(from_json(wire), transport_location,
                                           current_area)]
    /\ UNCHANGED travellerFrame

NextHandover ==
    \/ HandOverMigrator
    \/ HandOverCommuter

SpecHandover == InitHandover /\ [][NextHandover]_vars

----------------------------------------------------------------------------
(* SpecStart: set_starting_infections on the agents the citizen factory has *)
(* just made, for every configuration of starting infections, the ones that *)
(* ask for more agents than there are included.                             *)
MaxStartPopulation == 3   \* agents handed to set_starting_infections

InitStart ==
    /\ IdleDSM
    /\ IdleCitizen
    /\ IdleMap
    /\ IdleExposure
    /\ IdleLockdown
    /\ IdleProtocol
    /\ IdleFunctions
    /\ panicked = FALSE
    /\ counts = [hour |-> 0, susceptible |-> 0, exposed |-> 0, infected |-> 0,
                 hospitalized |-> 0, recovered |-> 0, deceased |-> 0]
    /\ travel = [population |-> 0, removed |-> 0, assimilated |-> 0]
    /\ \E population \in 1..MaxStartPopulation : \E start_infections \in StartingInfections :
         /\ region = [i \in 1..population |-> new_with_id(0, FALSE, Normal)]
         /\ run = [start_infections |-> start_infections, started |-> FALSE,
                   ended |-> FALSE, simulation_ended |-> 0,
                   run_mode |-> "Standalone", terminated |-> FALSE,
                   lockdown |-> [locked_down |-> FALSE, zero_infection_hour |-> 0]]

(* agent::set_starting_infections: the panic comes before any agent is touched *)
SetStartingInfections ==
    /\ ~panicked
    /\ ~run.started
    /\ IF total(run.start_infections) > Len(region)
       THEN /\ panicked' = TRUE
            /\ UNCHANGED <<region, run>>
       ELSE /\ \E to_infect \in choose_multiple(Len(region), total(run.start_infections)) :
                 region' = infect_chosen(region, run.start_infections, to_infect)
            /\ run' = [run EXCEPT !.started = TRUE]
            /\ UNCHANGED panicked
    /\ UNCHANGED <<dsmVars, citizenVars, mapVars, counts, travel, exposureVars,
                   lockdownVars, protocolVars, functionVars>>

NextStart == SetStartingInfections

SpecStart == InitStart /\ [][NextStart]_vars

----------------------------------------------------------------------------
(* SpecMove: one day of the routine late in a run, the fourteenth, when     *)
(* every last day of the disease can have been reached. The citizen is      *)
(* taken as the run can have left it by then: its infection at most as old  *)
(* as the run, in a hospital bed only when severely infected, isolated by a *)
(* lockdown or not, standing in any area.                                   *)
MoveDay == 13             \* the days gone by when the window opens
MaxMoveHours == 24        \* hours of the window

FirstMoveHour == MoveDay * HOURS_IN_A_DAY
MoveMachines ==
    {new, [state |-> Recovered, infection_day |-> MILD_INFECTED_LAST_DAY],
     [state |-> Deceased, infection_day |-> DiseaseLastDay]}
    \cup {[state |-> Infected(FALSE, Mild), infection_day |-> d] :
             d \in {1, ASYMPTOMATIC_LAST_DAY}}
    \cup {[state |-> Infected(TRUE, Mild), infection_day |-> d] :
             d \in {1, MILD_INFECTED_LAST_DAY}}
    \cup {[state |-> Infected(TRUE, Severe), infection_day |-> d] :
             d \in {1, DiseaseLastDay - 1, DiseaseLastDay}}

InitMove ==
    /\ IdleDSM
    /\ IdleMap
    /\ IdleCounts
    /\ IdleExposure
    /\ IdleSingle
    /\ IdleProtocol
    /\ IdleFunctions
    /\ panicked = FALSE
    /\ simulation_hour \in (FirstMoveHour - 1)..(FirstMoveHour + MaxMoveHours - 2)
    /\ \E is_working \in BOOLEAN, uses_public_transport \in BOOLEAN, m \in MoveMachines,
          hospitalized \in BOOLEAN, isolated \in BOOLEAN, cell \in Areas :
         \E derived \in derive_work_status(is_working) :
           \E work_status \in assign_essential_worker(derived) :
             /\ uses_public_transport => is_working
             /\ m.infection_day <= 1 + simulation_hour \div HOURS_IN_A_DAY
             /\ hospitalized => is_infected_severe(m) /\ cell = "hospital"
             /\ isolated => work_status # Essential
             /\ citizen = [new_with_id(0, uses_public_transport, work_status)
                              EXCEPT !.state_machine = m, !.hospitalized = hospitalized,
                                     !.current_area =
                                         IF cell = "hospital" /\ work_status.tag # "HospitalStaff"
                                         THEN "home" ELSE cell]
             /\ lockdown = [cell |-> cell, isolated |-> isolated, locked |-> isolated,
                            locked_at |-> 0, cell_when_locked |-> cell]

(* One pass of the hour loop for this citizen, no intervention due *)
MoveHour ==
    /\ ~panicked
    /\ simulation_hour < FirstMoveHour + MaxMoveHours - 1
    /\ simulation_hour' = simulation_hour + 1
    /\ UNCHANGED <<dsmVars, mapVars, countsVars, exposureVars, singleVars, protocolVars,
                 functionVars>>
    /\ \E out \in routine(citizen, simulation_hour + 1) :
         /\ panicked' = out.panic
         /\ citizen' = out.c
         /\ IF out.panic THEN UNCHANGED lockdown
            ELSE \E cell \in routine_cell(citizen, out.c, lockdown.isolated, lockdown.cell,
                                          simulation_hour + 1) :
                   lockdown' = [lockdown EXCEPT !.cell = cell]

NextMove == MoveHour

SpecMove == InitMove /\ [][NextMove]_vars

----------------------------------------------------------------------------
(* SpecBuffers: the two-map tick with what run does to the write buffer     *)
(* after simulate. A citizen that lock_city has isolated is written -id:    *)
(* the flag travels with the citizen from buffer to buffer. Nobody in this  *)
(* city is an essential worker.                                             *)
Flagged(id) == IF id > 0 THEN -id ELSE id

(* run after simulate, when should_lock_down holds:                         *)
(* lock_city(&mut write_buffer_reference); vaccinate is handed the same     *)
(* write_buffer_reference                                                   *)
ApplyInterventions ==
    /\ pending = {}
    /\ simulation_hour >= 1
    /\ LET write_buffer == WriteBuffer(simulation_hour)
           is_city_under_quarantine == \E cell \in Cells : write_buffer[cell] < 0
       IN  /\ ~is_city_under_quarantine
           /\ WriteTo(simulation_hour,
                      [cell \in Cells |-> Flagged(write_buffer[cell])])
    /\ UNCHANGED <<dsmVars, panicked, citizen, simulation_hour, pending, last_insert,
                   countsVars, restVars>>

NextBuffers == StartSimulate \/ SimulateAgent \/ ApplyInterventions

SpecBuffers == InitMap /\ [][NextBuffers]_vars

----------------------------------------------------------------------------
(* SpecGoto: goto_area of a working citizen that may move, on a map with    *)
(* other citizens on it. The target area is a set of cells of the grid.     *)

(* Citizen::goto_area past the can_move check, self.working:                *)
(* new_cell is target_area.get_random_point(rng)                            *)
goto_area_working(map, target_area, cell) ==
    {move_agent(map, cell, IF ~is_cell_vacant(map, new_cell) THEN cell ELSE new_cell) :
        new_cell \in target_area}

InitGoto ==
    /\ IdleDSM
    /\ IdleCitizen
    /\ IdleCounts
    /\ IdleExposure
    /\ IdleSingle
    /\ IdleLockdown
    /\ IdleProtocol
    /\ IdleOrchestrator
    /\ panicked = FALSE
    /\ agent_location_map \in
         {map \in [Cells -> Population \cup {Vacant}] :
            \A id \in Population : Cardinality({cell \in Cells : map[cell] = id}) = 1}
    /\ write_agent_location_map = EmptyMap
    /\ pending = {}
    /\ last_insert = NoInsert
    /\ \E cell \in Cells, target_area \in SUBSET Cells :
         /\ agent_location_map[cell] # Vacant
         /\ target_area # {}
         /\ cell \notin target_area
         /\ traveller = [op |-> "none", cell |-> cell, target_area |-> target_area,
                         new_cell |-> cell]

GotoArea ==
    /\ traveller.op = "none"
    /\ \E new_cell \in goto_area_working(agent_location_map, traveller.target_area,
                                         traveller.cell) :
         traveller' = [traveller EXCEPT !.op = "goto_area", !.new_cell = new_cell]
    /\ UNCHANGED <<dsmVars, panicked, citizenVars, mapVars, countsVars, exposureVars,
                   singleVars, lockdownVars, protocolVars, orchestrator>>

NextGoto == GotoArea

SpecGoto == InitGoto /\ [][NextGoto]_vars

----------------------------------------------------------------------------
(* Properties of the state machine's API (SpecDSM).                         *)

Called(op) == last_call.op = op
Before == last_call.before
TerminalState(st) == st \in {Recovered, Deceased}

(* C3: expose from any state other than Susceptible, and infect from any    *)
(* state other than Exposed, panics and leaves the machine as it was; from  *)
(* Susceptible, expose(h) yields Exposed{at_hour = h}.                      *)
C3_ExposeInfectPrecondition ==
    /\ (Called("expose") /\ Before.state # Susceptible)
          => (panicked /\ machine = Before)
    /\ (Called("infect") /\ Before.state.tag # "Exposed")
          => (panicked /\ machine = Before)
    /\ (Called("expose") /\ Before.state = Susceptible)
          => (~panicked /\ machine = [Before EXCEPT !.state = Exposed(last_call.hour)])

C3_Witness ==
    /\ Called("infect") /\ Before.state = Infected(TRUE, Mild) /\ panicked

C5_HospitalizeIsPureQuery ==
    Called("hospitalize") =>
        /\ machine = Before
        /\ panicked <=> Before.state.tag # "Infected"
        /\ (Before.state.tag = "Infected" /\ Before.state # Infected(TRUE, Severe))
              => last_call.ret = FALSE
        /\ Before.state = Infected(TRUE, Severe)
              => /\ last_call.ret = last_call.draws[3]
                 /\ last_call.draws[2] = AsU32(Before.infection_day + last_call.draws[1])

C5_Witness ==
    /\ Called("hospitalize") /\ Before.state = Infected(TRUE, Severe)
    /\ last_call.ret = TRUE /\ last_call.draws[1] = 2 /\ Before.infection_day = 3

(* C6: once the machine is Recovered or Deceased no operation changes its   *)
(* state again.                                                             *)
C6_TerminalStatesStay ==
    [][TerminalState(machine.state) => machine'.state = machine.state]_vars

C6_Witness ==
    /\ TerminalState(machine.state) /\ TerminalState(Before.state)
    /\ Called("expose") /\ panicked

C8_SeverityThreshold ==
    (Called("change_infection_severity") /\ Before.state.tag = "Infected"
        /\ Before.state.symptoms /\ Before.state.severity.tag = "Pre") =>
        /\ ~panicked
        /\ machine.infection_day = Before.infection_day
        /\ IF last_call.hour - Before.state.severity.at_hour < PreSymptomaticDuration
           THEN machine = Before
           ELSE machine.state \in {Infected(TRUE, Mild), Infected(TRUE, Severe)}

C8_Witness ==
    /\ Called("change_infection_severity")
    /\ Before.state.tag = "Infected" /\ Before.state.severity.tag = "Pre"
    /\ last_call.hour - Before.state.severity.at_hour = PreSymptomaticDuration
    /\ machine.state = Infected(TRUE, Severe)

(* C9 as stated: decease on an Infected machine changes the state only for  *)
(* symptomatic Severe at the disease's last day, symptomatic Mild at        *)
(* MILD_INFECTED_LAST_DAY and asymptomatic Mild at ASYMPTOMATIC_LAST_DAY;   *)
(* in every other case, pre-symptomatic included, it returns (0,0) and      *)
(* changes nothing.                                                         *)
C9_Stated_RecoversIn(m) ==
    \/ m.state = Infected(TRUE, Severe) /\ m.infection_day = DiseaseLastDay
    \/ m.state = Infected(TRUE, Mild) /\ m.infection_day = MILD_INFECTED_LAST_DAY
    \/ m.state = Infected(FALSE, Mild) /\ m.infection_day = ASYMPTOMATIC_LAST_DAY

C9_DeceaseOnlyInThreeCases ==
    (Called("decease") /\ Before.state.tag = "Infected") =>
        /\ ~C9_Stated_RecoversIn(Before) => (last_call.ret = <<0, 0>> /\ machine = Before)
        /\ last_call.ret = <<1, 0>> <=> machine.state = Deceased
        /\ last_call.ret = <<0, 1>> <=> machine.state = Recovered

(* C9 amended: the third case is every Infected state that is neither       *)
(* symptomatic Severe nor symptomatic Mild (asymptomatic Mild, and also     *)
(* pre-symptomatic) at infection_day == ASYMPTOMATIC_LAST_DAY; in those     *)
(* three cases the state becomes Recovered (Severe: Deceased or Recovered), *)
(* in every other case decease returns (0,0) and changes nothing; (1,0) is  *)
(* returned exactly with Deceased and (0,1) exactly with Recovered.         *)
C9_Amended_RecoversIn(m) ==
    \/ m.state = Infected(TRUE, Severe) /\ m.infection_day = DiseaseLastDay
    \/ m.state = Infected(TRUE, Mild) /\ m.infection_day = MILD_INFECTED_LAST_DAY
    \/ /\ m.state \notin {Infected(TRUE, Severe), Infected(TRUE, Mild)}
       /\ m.infection_day = ASYMPTOMATIC_LAST_DAY

C9_DeceaseCases ==
    (Called("decease") /\ Before.state.tag = "Infected") =>
        /\ ~panicked
        /\ machine.infection_day = Before.infection_day
        /\ IF C9_Amended_RecoversIn(Before)
           THEN /\ machine.state \in {Recovered, Deceased}
                /\ machine.state = Deceased => Before.state = Infected(TRUE, Severe)
           ELSE last_call.ret = <<0, 0>> /\ machine = Before
        /\ last_call.ret = <<1, 0>> <=> machine.state = Deceased
        /\ last_call.ret = <<0, 1>> <=> machine.state = Recovered

C9_Witness ==
    /\ Called("decease") /\ Before.state.tag = "Infected"
    /\ Before.state.severity.tag = "Pre" /\ Before.state.symptoms
    /\ Before.infection_day = ASYMPTOMATIC_LAST_DAY
    /\ machine.state = Recovered /\ last_call.ret = <<0, 1>>

----------------------------------------------------------------------------
(* Properties of the hourly routine (SpecCitizen).                          *)

(* The hour loop keeps running until the configured hours are simulated. *)
SpecCitizenFair == SpecCitizen /\ WF_vars(SimulateHour)

Machine == citizen.state_machine
ExposureCutoff == MaxSimHour - HOURS_IN_A_DAY * (DiseaseLastDay + 2)

(* A citizen that becomes Exposed (long enough before the run ends) reaches *)
(* Recovered or Deceased.                                                   *)
ExposedEventuallyTerminal ==
    (is_exposed(Machine) /\ simulation_hour <= ExposureCutoff)
        ~> TerminalState(Machine.state)

(* An Infected citizen never passes the ROUTINE_END hour of the day on      *)
(* which its infection_day equals the disease's last day.                   *)
InfectedUntilLastDay ==
    is_infected(Machine) =>
        /\ Machine.infection_day <= DiseaseLastDay
        /\ Machine.infection_day = DiseaseLastDay
              => simulation_hour % NUMBER_OF_HOURS # ROUTINE_END_TIME

(* C10: under the hourly routine every citizen that becomes Exposed         *)
(* eventually reaches Recovered or Deceased, no later than the ROUTINE_END  *)
(* hour of the day on which its infection_day equals the disease's last     *)
(* day; no Infected citizen stays Infected forever.                         *)
C10_ExposedReachTerminal ==
    []InfectedUntilLastDay /\ ExposedEventuallyTerminal

(* a citizen exposed during the run, one hour before ROUTINE_END of its last day *)
C10_Witness ==
    /\ is_infected_severe(Machine) /\ citizen.hospitalized
    /\ Machine.infection_day = DiseaseLastDay
    /\ simulation_hour % NUMBER_OF_HOURS = ROUTINE_END_TIME - 1
    /\ simulation_hour > HOURS_IN_A_DAY * DiseaseLastDay

----------------------------------------------------------------------------
(* Properties of the two-map tick (SpecMap).                                *)

TickDone == simulation_hour >= 1 /\ pending = {}
CellsOf(map, id) == {cell \in Cells : map[cell] = id}

(* C2: simulate never loses or duplicates a citizen: every citizen the      *)
(* loop has visited is on exactly one cell of the write map, so that after  *)
(* a tick the write map holds exactly the citizens of the read map; an      *)
(* agent whose point is taken in the write map is inserted on its own cell, *)
(* and no insert replaces a citizen already written.                        *)
C2_SimulateKeepsCitizens ==
    simulation_hour >= 1 =>
      LET read_buffer == ReadBuffer(simulation_hour)
          write_buffer == WriteBuffer(simulation_hour)
      IN  /\ \A id \in Population :
               /\ Cardinality(CellsOf(read_buffer, id)) = 1
               /\ Cardinality(CellsOf(write_buffer, id)) =
                    IF CellsOf(read_buffer, id) \subseteq pending THEN 0 ELSE 1
          /\ TickDone => CitizensOf(write_buffer) = CitizensOf(read_buffer)
          /\ last_insert # NoInsert =>
               /\ last_insert.replaced = Vacant
               /\ last_insert.new_location \in {last_insert.cell, last_insert.point}
               /\ last_insert.point # last_insert.cell
                    => is_cell_vacant(read_buffer, last_insert.point)

(* an agent fell back to its own cell because its point was taken, and the tick ended *)
C2_Witness ==
    /\ TickDone
    /\ simulation_hour = MaxMapHour
    /\ last_insert # NoInsert
    /\ last_insert.point # last_insert.cell
    /\ last_insert.new_location = last_insert.cell

----------------------------------------------------------------------------
(* Properties of the counts of a region (SpecCounts).                       *)

NumberOf(P(_)) == Cardinality({i \in 1..Len(region) : P(region[i])})
CountedSusceptible(c) == is_susceptible(c.state_machine)
CountedExposed(c) == is_exposed(c.state_machine)
CountedInfected(c) == is_infected(c.state_machine) /\ ~c.hospitalized
CountedHospitalized(c) == is_infected(c.state_machine) /\ c.hospitalized
CountedRecovered(c) == c.state_machine.state = Recovered
CountedDeceased(c) == is_deceased(c.state_machine)

----------------------------------------------------------------------------
(* Properties of the exposure update (SpecExposure).                        *)

Simulated == Len(neighbours.cells) > 0
(* the hours of the day at which the routine reaches update_infection_dynamics *)
RunsDynamics(c, hr) ==
    /\ hr % NUMBER_OF_HOURS # ROUTINE_START_TIME
    /\ hr % NUMBER_OF_HOURS \notin SLEEP_START_TIME..SLEEP_END_TIME
    /\ hr % NUMBER_OF_HOURS # ROUTINE_END_TIME
    /\ is_hospital_staff(c) =>
         saturating_sub(hr, c.work_status.work_start_at) \notin
           {HOURS_IN_A_DAY * QUARANTINE_DAYS, HOURS_IN_A_DAY * QUARANTINE_DAYS * 2}

----------------------------------------------------------------------------
(* Properties of the single-region run (SpecSingle).                        *)

ZeroStartingInfections == total(run.start_infections) = 0
AllSusceptible == \A i \in 1..Len(region) : is_susceptible(region[i].state_machine)

NoInfectionAndStopAtHourOne ==
    ZeroStartingInfections =>
      /\ AllSusceptible
      /\ simulation_hour <= 1
      /\ counts.hour = simulation_hour
      /\ run.ended <=> simulation_hour = 1

(* C12: a single-region run with zero starting infections never has an      *)
(* Exposed or Infected citizen and terminates at hour 1: the loop stops     *)
(* after the first simulated hour, exposed, infected and hospitalized being *)
(* zero, and simulation_ended is emitted.                                   *)
C12_ZeroInfectionsStopAtHourOne ==
    /\ []NoInfectionAndStopAtHourOne
    /\ ZeroStartingInfections ~> (run.ended /\ simulation_hour = 1)

(* the run without infections has ended after its first hour *)
C12_Witness ==
    /\ ZeroStartingInfections
    /\ Len(region) = MaxSinglePopulation
    /\ run.ended /\ counts.hour = 1 /\ ~panicked

----------------------------------------------------------------------------
(* Properties of the city under lockdown (SpecLockdown).                    *)

NonEssential == ~(citizen.work_status = Essential)
UnderLockdownSince == lockdown.locked /\ simulation_hour > lockdown.locked_at

(* C13 as stated: under lockdown, at every hour after the one it was applied *)
(* at, a non-essential citizen's cell is within its home area.               *)
C13_Stated_LockedDownAtHome ==
    (UnderLockdownSince /\ NonEssential) => lockdown.cell = "home"

(* C13, amended: under lockdown applied at hour h, at every hour > h until  *)
(* the unlock a non-essential citizen is isolated and its cell is within    *)
(* the area it was in when the city was locked, within its home area, or    *)
(* within the hospital.                                                     *)
C13_Amended_LockedDownInPlace ==
    (lockdown.locked /\ NonEssential) =>
      /\ lockdown.isolated
      /\ lockdown.cell \in {lockdown.cell_when_locked, "home", "hospital"}

(* a worker locked down at work is still there after the hour to go home *)
C13_Witness ==
    /\ UnderLockdownSince /\ NonEssential /\ ~panicked
    /\ lockdown.cell_when_locked = "work" /\ lockdown.cell = "work"
    /\ lockdown.locked_at < ROUTINE_WORK_END_TIME
    /\ simulation_hour > ROUTINE_WORK_END_TIME

----------------------------------------------------------------------------
(* Properties of the regions' ticks (SpecTicks: any tick may be the next).  *)

(* the boundary hour a region last simulated was let in by a tick of that hour *)
TickOfTheHour ==
    \A e \in Regions :
       (engines[e].counts.hour > 0 /\ is_boundary_hour(plan, engines[e].counts.hour)) =>
          engines[e].tick.hour = engines[e].counts.hour

(* region e takes an earlier tick from its stream *)
ReadsEarlierTick(e) ==
    /\ engines[e].pc = "tick"
    /\ is_boundary_hour(plan, engines[e].hour)
    /\ bus.ticks[e] # <<>>
    /\ Head(bus.ticks[e]).hour < engines[e].hour
    /\ bus'.ticks[e] = Tail(bus.ticks[e])

(* what a step leaves of region e and of the bus, but for the tick it took *)
WithoutEffect(e) ==
    /\ engines' = [engines EXCEPT ![e].tick_read = engines'[e].tick_read]
    /\ bus' = [bus EXCEPT !.ticks[e] = Tail(@)]
    /\ engines'[e].pc = "tick"

(* C14: at a boundary hour h a region simulates hour h only after a tick    *)
(* whose hour is h; a tick with an earlier hour is discarded, with no       *)
(* effect on the map, the counts or the messages sent.                      *)
C14_TickBeforeSimulate ==
    /\ []TickOfTheHour
    /\ [][\A e \in Regions : ReadsEarlierTick(e) => WithoutEffect(e)]_vars

(* a region that took in commuters at travel start has discarded an earlier *)
(* tick at travel end and still waits                                       *)
C14_Witness ==
    \E e \in Regions :
       /\ engines[e].tick_read.at = ROUTINE_TRAVEL_END_TIME
       /\ engines[e].tick_read.hour = ROUTINE_TRAVEL_START_TIME
       /\ engines[e].pc = "tick" /\ engines[e].hour = ROUTINE_TRAVEL_END_TIME
       /\ engines[e].tick.hour = 0
       /\ \E a \in Commuters : Home(a) # e /\ engines[e].map[a] > 0

TickRead(e) == engines[e].tick_read.hour > 0

(* C15 as stated: a tick whose hour is less than the local hour aborts. *)
C15_Stated_EarlierTickAborts ==
    \A e \in Regions :
       (TickRead(e) /\ engines[e].tick_read.hour < engines[e].tick_read.at) =>
          engines[e].pc = "panicked"

(* C15, amended: a tick whose hour is greater than the local simulation     *)
(* hour aborts the process; a tick whose hour is less is discarded and the  *)
(* region keeps waiting at its hour.                                        *)
C15_Amended_LaterTickAborts ==
    \A e \in Regions :
       /\ (TickRead(e) /\ engines[e].tick_read.hour > engines[e].tick_read.at) =>
             engines[e].pc = "panicked"
       /\ (TickRead(e) /\ engines[e].tick_read.hour < engines[e].tick_read.at) =>
             engines[e].pc = "tick" /\ engines[e].hour = engines[e].tick_read.at

(* a region read the tick of a later hour and panicked *)
C15_Witness ==
    \E e \in Regions :
       /\ engines[e].tick_read.at = ROUTINE_TRAVEL_START_TIME
       /\ engines[e].tick_read.hour > ROUTINE_TRAVEL_START_TIME
       /\ engines[e].pc = "panicked"

----------------------------------------------------------------------------
(* Properties of the regions' exchange (SpecRegions: the coordinator ticks  *)
(* the next hour after every region's ack, every message is delivered once).*)

(* incoming_regions_count() of the exchange of hour hr *)
Expected(e, hr) ==
    IF plan.commute_enabled /\ is_commute_hour(hr) THEN commute_incoming_regions_count(plan, e)
    ELSE IF plan.migration_enabled /\ is_migration_hour(hr)
    THEN migration_incoming_regions_count(plan, e)
    ELSE 0

Waiting(e) == engines[e].pc \in {"commuters", "migrators"}
Stream(e) == IF engines[e].pc = "commuters" THEN bus.commute[e] ELSE bus.migration[e]

(* region e has gone through the exchange of its last boundary hour *)
Exchanged(e) == engines[e].pc \in {"tick", "ended"} /\ engines[e].tick # NoTick

CountsBeforeCommit ==
    \A e \in Regions :
       /\ Exchanged(e) => engines[e].received = Expected(e, engines[e].tick.hour)
       /\ Waiting(e) =>
            /\ engines[e].received < Expected(e, engines[e].hour)
            /\ engines[e].log = <<"tick", "simulate", "sent">>
            /\ engines[e].counts.hour = engines[e].hour
            /\ [engine_id |-> e, hour |-> engines[e].hour] \notin bus.acks

Published(peer, hr) == engines[peer].counts.hour >= hr /\ engines[peer].pc # "panicked"

(* C17: every region publishes a bucket for every destination at a boundary *)
(* hour, empty or not, and the receivers count them: once every peer has    *)
(* published its buckets of the hour, no region is left waiting for a       *)
(* bucket, so every region completes its receive step and sends its ack.    *)
C17_NoRegionLeftWaiting ==
    \A e \in Regions :
       ~ /\ Waiting(e)
         /\ Stream(e) = <<>>
         /\ \A peer \in Regions \ {e} : Published(peer, engines[e].hour)

Copies(a) ==
    LET RECURSIVE Sum(_)
        Sum(S) == IF S = {} THEN 0
                  ELSE LET e == CHOOSE x \in S : TRUE IN engines[e].map[a] + Sum(S \ {e})
    IN  Sum(Regions)

(* agent a has arrived while the region that sent it still waits to remove it *)
LeavingSender(a) ==
    \E e \in Regions : Waiting(e) /\ a \in engines[e].outgoing /\ engines[e].map[a] > 0

(* C18: a message delivered twice leaves the regions as they are after one  *)
(* delivery: the second delivery is never counted as a bucket of the        *)
(* exchange and no traveller is assimilated twice (no agent is in the maps  *)
(* more than once, but for the one its sender has yet to remove).           *)
C18_RedeliveryTolerated ==
    /\ \A e \in Regions : ~engines[e].message_read.redelivered
    /\ \A a \in Agents : Copies(a) <= 1 \/ (Copies(a) = 2 /\ LeavingSender(a))

OrderOfTheHour ==
    <<"tick", "simulate", "sent", "received", "removed", "assimilated",
      "counts_updated", "interventions", "ack">>

IsPrefix(s, t) == Len(s) <= Len(t) /\ \A i \in 1..Len(s) : s[i] = t[i]

InOrder ==
    \A e \in Regions :
       IF engines[e].tick # NoTick
       THEN IsPrefix(engines[e].log, OrderOfTheHour)
       ELSE engines[e].log \in {<<>>, <<"simulate", "counts_updated", "interventions">>,
                                 <<"simulate", "counts_updated", "interventions", "ack">>}

(* the messages a region has processed are of no later hour than the one it *)
(* processed them at, which it had simulated; the tick it let in is of the   *)
(* hour; a tick of a later hour waits in the stream until the region is back *)
(* at the top of its loop                                                    *)
NothingOfALaterHourProcessed ==
    \A e \in Regions :
       /\ engines[e].message_read.kind # "none" =>
            /\ engines[e].message_read.hour <= engines[e].message_read.at
            /\ engines[e].counts.hour >= engines[e].message_read.at
       /\ engines[e].tick # NoTick => engines[e].tick.hour = engines[e].counts.hour
       /\ \A i \in 1..Len(bus.ticks[e]) :
            bus.ticks[e][i].hour > engines[e].hour => engines[e].pc = "tick"

(* C19: within a region the steps of an hour occur in the order tick        *)
(* received, simulate, outgoing sent, incoming received, outgoing removed,  *)
(* incoming assimilated, counts_updated, interventions applied, ack sent,   *)
(* and the region processes the tick and the travel messages of an hour     *)
(* only in its own pass for that hour, after the passes of the hours before.*)
C19_HourCommittedInOrder ==
    InOrder /\ NothingOfALaterHourProcessed

(* a region has gone through the whole exchange of travel end *)
C19_Witness ==
    \E e \in Regions :
       /\ engines[e].log = OrderOfTheHour
       /\ engines[e].tick.hour = ROUTINE_TRAVEL_END_TIME
       /\ engines[e].message_read.hour = ROUTINE_TRAVEL_END_TIME
       /\ engines[e].received = 1
       /\ [engine_id |-> e, hour |-> ROUTINE_TRAVEL_END_TIME] \in bus.acks

(* C20: no agent takes part in two regions' hour h: an agent that a region  *)
(* simulated in hour h and sent out is next simulated by the destination,   *)
(* in its hour h+1, and no more by the region that sent it.                 *)
C20_OneRegionPerHour ==
    \A a \in Agents :
       LET last == coordinator.simulated[a]
       IN  (last.before.engine # 0 /\ last.engine # last.before.engine) =>
              last.hour = last.before.hour + 1

(* the travellers of the messages that wait in the streams of the bus *)
InFlight ==
    UNION {{bus.commute[e][i].travellers : i \in 1..Len(bus.commute[e])}
           \cup {bus.migration[e][i].travellers : i \in 1..Len(bus.migration[e])}
           : e \in Regions}

(* C21: at every instant of every interleaving a citizen is in the map of at *)
(* most one region, and a traveller in flight on the bus is in no region's   *)
(* map: the sender has removed it before any receiver can hold it.           *)
C21_OwnedByOneRegion ==
    \A a \in Agents :
       /\ Copies(a) <= 1
       /\ (\E travellers \in InFlight : a \in travellers) => Copies(a) = 0

(* what region e has on the bus: its buckets in the streams, and its acks *)
BucketsOf(e, b) ==
    UNION {{b.commute[r][i] : i \in {k \in 1..Len(b.commute[r]) : b.commute[r][k].from = e}}
           \cup {b.migration[r][i] : i \in {k \in 1..Len(b.migration[r]) : b.migration[r][k].from = e}}
           : r \in Regions}
AcksOf(e, b) == {ack \in b.acks : ack.engine_id = e}

(* region e takes the tick of its hour from the stream and the tick says terminate *)
TerminateTickReceived(e) ==
    /\ engines[e].pc = "tick"
    /\ is_boundary_hour(plan, engines[e].hour)
    /\ bus.ticks[e] # <<>>
    /\ Head(bus.ticks[e]).hour = engines[e].hour
    /\ Head(bus.ticks[e]).terminate
    /\ bus'.ticks[e] = Tail(bus.ticks[e])

SimulationEndedOnce ==
    /\ \A e \in Regions :
          engines[e].simulation_ended = IF engines[e].pc = "ended" THEN 1 ELSE 0
    /\ run.simulation_ended = IF run.ended THEN 1 ELSE 0

ShutsDown ==
    /\ \A e \in Regions :
         /\ TerminateTickReceived(e) =>
              /\ engines'[e].pc = "ended"
              /\ engines'[e].simulation_ended = 1
              /\ engines'[e].counts = engines[e].counts
              /\ engines'[e].map = engines[e].map
              /\ coordinator'.simulated = coordinator.simulated
              /\ BucketsOf(e, bus') \subseteq BucketsOf(e, bus)
              /\ AcksOf(e, bus') = AcksOf(e, bus)
         /\ engines[e].pc = "ended" =>
              /\ engines'[e] = engines[e]
              /\ BucketsOf(e, bus') \subseteq BucketsOf(e, bus)
              /\ AcksOf(e, bus') = AcksOf(e, bus)
    /\ run.ended => UNCHANGED <<run, counts, region, simulation_hour>>

(* C22: a region that receives the tick of its hour with the terminate flag *)
(* simulates no further hour, sends no further travel message or ack and    *)
(* emits simulation_ended; in every run that ends (hours exhausted, the     *)
(* standalone stop at zero active cases, a terminate tick) simulation_ended *)
(* is emitted exactly once and nothing is emitted after it.                 *)
C22_CleanShutdown == []SimulationEndedOnce /\ [][ShutsDown]_vars

(* a region has left its loop at the terminate tick of travel start *)
C22_Witness ==
    \E e \in Regions :
       /\ engines[e].pc = "ended" /\ engines[e].simulation_ended = 1
       /\ engines[e].tick_read =
             [hour |-> ROUTINE_TRAVEL_START_TIME, at |-> ROUTINE_TRAVEL_START_TIME]
       /\ engines[e].counts.hour = ROUTINE_TRAVEL_START_TIME - 1

(* C23: a delivery failure when sending a migration bucket, a commute bucket *)
(* or an ack is never dropped silently: it is retried and then escalates to  *)
(* a fatal abort, so a region never continues to the next hour after a send  *)
(* that did not succeed.                                                     *)
C23_NoHourAfterFailedSend ==
    \A m \in bus.failed :
       engines[m.from].hour = m.hour /\ engines[m.from].pc # "ended"

Locked(lockdown_status, region_) == lockdown_status[region_]

ExpectedEntry(plan_, lockdown_status, i, j) ==
    IF /\ plan_.matrix[i][j] > 0
       /\ \/ Locked(lockdown_status, plan_.regions[i])
          \/ Locked(lockdown_status, plan_.regions[j])
    THEN plan_.lockdown_travellers
    ELSE plan_.matrix[i][j]

(* C24: update_with_lockdowns(L) returns a plan whose entry (i, j) is        *)
(* lockdown_travellers when the original entry is positive and region i or   *)
(* region j is locked in L, and the original entry otherwise; the result is  *)
(* the same in whatever order the locked regions are visited, the receiver   *)
(* is not mutated, and lockdown_travellers is 0 when it is not configured.   *)
C24_UpdateWithLockdowns ==
    /\ ~orchestrator.configured => orchestrator.travel_plan.lockdown_travellers = 0
    /\ orchestrator.op = "update_with_lockdowns" =>
         LET P == orchestrator.before
             N == orchestrator.new_travel_plan
             L == orchestrator.lockdown_status
         IN  /\ orchestrator.travel_plan = P
             /\ N.regions = P.regions
             /\ N.lockdown_travellers = P.lockdown_travellers
             /\ \A i, j \in 1..Len(P.regions) :
                   N.matrix[i][j] = ExpectedEntry(P, L, i, j)
             /\ \A order \in LockedOrders(L) : update_with_lockdowns(P, order) = N

(* two regions locked: a positive entry between a locked and an unlocked   *)
(* region, one between the two locked ones and a zero in a locked row       *)
C24_Witness ==
    /\ orchestrator.op = "update_with_lockdowns"
    /\ orchestrator.configured
    /\ orchestrator.before.lockdown_travellers = MaxLockdownTravellers
    /\ orchestrator.lockdown_status = [k \in PlanRegions |-> k # 1]
    /\ orchestrator.before.matrix[1][2] > 0
    /\ orchestrator.before.matrix[2][3] > 0
    /\ orchestrator.before.matrix[3][2] = 0
    /\ orchestrator.new_travel_plan.matrix[1][2] = MaxLockdownTravellers
    /\ orchestrator.new_travel_plan.matrix[2][3] = MaxLockdownTravellers
    /\ orchestrator.new_travel_plan # orchestrator.before

(* C25: update_with_lockdowns is idempotent: for every plan P, lockdown     *)
(* status L and value of lockdown_travellers,                               *)
(* P.update_with_lockdowns(L).update_with_lockdowns(L) equals                *)
(* P.update_with_lockdowns(L).                                              *)
C25_UpdateIsIdempotent ==
    orchestrator.op = "update_again" =>
       /\ orchestrator.new_travel_plan = orchestrator.before
       /\ \A first, second \in LockedOrders(orchestrator.lockdown_status) :
             update_with_lockdowns(update_with_lockdowns(orchestrator.travel_plan, first), second)
                = update_with_lockdowns(orchestrator.travel_plan, first)

(* the second update of a plan the first update has changed, two regions locked *)
C25_Witness ==
    /\ orchestrator.op = "update_again"
    /\ orchestrator.before # orchestrator.travel_plan
    /\ orchestrator.travel_plan.lockdown_travellers > MaxEntry
    /\ Cardinality({k \in PlanRegions : orchestrator.lockdown_status[k]}) = 2

(* rs names the regions of the plan, each once, in any order *)
IsPermutation(rs, regions) ==
    /\ Len(rs) = Len(regions)
    /\ \A i \in 1..Len(regions) :
          Cardinality({k \in 1..Len(rs) : rs[k] = regions[i]})
             = Cardinality({k \in 1..Len(regions) : regions[k] = regions[i]})

(* C26: validate_regions(rs) returns true exactly when rs names the same    *)
(* regions as the travel plan, in any order: it rejects a list with a       *)
(* region missing, with an extra region, or that is not a permutation of    *)
(* the plan's regions, such as one of the right length that repeats one.    *)
C26_ValidatesPermutations ==
    orchestrator.op = "validate_regions" =>
       (orchestrator.valid <=>
          IsPermutation(orchestrator.regions, orchestrator.travel_plan.regions))

InBucket(commuter, bucket) ==
    \E i \in 1..Len(bucket.commuters) : bucket.commuters[i] = commuter

(* C27: get_commuters_by_region returns one bucket per region of the plan,  *)
(* in plan order: at hour mod 24 = ROUTINE_TRAVEL_START a commuter is in    *)
(* the bucket of its work region, at hour mod 24 = ROUTINE_TRAVEL_END the   *)
(* same commuter is in the bucket of its home region, and at every other    *)
(* hour all buckets are empty.                                              *)
C27_BucketsByDestination ==
    traveller.op = "get_commuters_by_region" =>
       LET buckets == traveller.commuters_by_region
           commuters == traveller.commuters
           hour_of_day == traveller.simulation_hour % 24
       IN  /\ Len(buckets) = Len(traveller.regions)
           /\ \A r \in 1..Len(buckets) :
                /\ buckets[r].to_engine_id = traveller.regions[r]
                /\ \A k \in 1..Len(commuters) :
                      InBucket(commuters[k], buckets[r]) <=>
                         \/ /\ hour_of_day = ROUTINE_TRAVEL_START_TIME
                            /\ commuters[k].work_location = traveller.regions[r]
                         \/ /\ hour_of_day = ROUTINE_TRAVEL_END_TIME
                            /\ commuters[k].home_location = traveller.regions[r]
                /\ Len(buckets[r].commuters)
                      = Cardinality({k \in 1..Len(commuters) : InBucket(commuters[k], buckets[r])})
                /\ hour_of_day \notin {ROUTINE_TRAVEL_START_TIME, ROUTINE_TRAVEL_END_TIME}
                      => buckets[r].commuters = <<>>

(* travel start of the second day: a commuter of region 1 who works in     *)
(* region 2 is in the bucket of region 2, next to one who lives and works   *)
(* there                                                                    *)
C27_Witness ==
    /\ traveller.op = "get_commuters_by_region"
    /\ traveller.simulation_hour = HOURS_IN_A_DAY + ROUTINE_TRAVEL_START_TIME
    /\ Len(traveller.commuters) = MaxCommuters
    /\ traveller.commuters[1].home_location = 1 /\ traveller.commuters[1].work_location = 2
    /\ traveller.commuters[2].home_location = 2 /\ traveller.commuters[2].work_location = 2
    /\ Len(traveller.commuters_by_region[2].commuters) = 2
    /\ traveller.commuters_by_region[1].commuters = <<>>

(* C28: a traveller handed over between regions keeps its identity and its *)
(* disease history: the citizen made of a Migrator or a Commuter has the    *)
(* id, immunity, vaccinated flag, uses_public_transport flag and state      *)
(* machine (state and infection_day) of the citizen that was sent, with     *)
(* hospitalized, isolated and work_quarantined false; a Commuter keeps its  *)
(* home and work areas, a Migrator gets the ones the receiver assigns.      *)
C28_HandoverKeepsIdentity ==
    traveller.op \in {"from_migrator", "from_commuter"} =>
       LET sent == traveller.sent
           received == traveller.received
       IN  /\ received.id = sent.id
           /\ received.immunity = sent.immunity
           /\ received.vaccinated = sent.vaccinated
           /\ received.uses_public_transport = sent.uses_public_transport
           /\ received.state_machine = sent.state_machine
           /\ ~received.hospitalized /\ ~received.isolated /\ ~received.work_quarantined
           /\ traveller.op = "from_commuter" =>
                /\ received.home_location = sent.home_location
                /\ received.work_location = sent.work_location
           /\ traveller.op = "from_migrator" =>
                /\ received.home_location = traveller.assigned[1]
                /\ received.work_location = traveller.assigned[2]

(* a severely infected, vaccinated citizen on its second day of infection, *)
(* hospitalized, isolated and quarantined when sent, arrives as a migrator  *)
C28_Witness ==
    /\ traveller.op = "from_migrator"
    /\ traveller.sent.hospitalized /\ traveller.sent.isolated /\ traveller.sent.work_quarantined
    /\ traveller.sent.vaccinated
    /\ traveller.sent.state_machine = increment_infection_day(set_severe_infected(new))
    /\ traveller.received.state_machine.infection_day = 2
    /\ traveller.received.home_location # traveller.sent.home_location

(* C29: set_starting_infections puts exactly the configured number of       *)
(* distinct agents into each starting state: Exposed at hour 0, Infected    *)
(* mild without symptoms, Infected mild with symptoms, Infected severe, the *)
(* infected ones on infection day 1; every other agent stays the            *)
(* Susceptible agent it was. When the configured total exceeds the number   *)
(* of agents it aborts and no agent has changed.                            *)
AgentsIn(state_, infection_day_) ==
    Cardinality({i \in DOMAIN region :
                   region[i].state_machine =
                     [state |-> state_, infection_day |-> infection_day_]})
C29_StartingInfections ==
    LET si == run.start_infections
        fresh == new_with_id(0, FALSE, Normal)
    IN  /\ run.started =>
             /\ total(si) <= Len(region)
             /\ AgentsIn(Exposed(0), 0) = si.exposed
             /\ AgentsIn(Infected(FALSE, Mild), 1) = si.infected_mild_asymptomatic
             /\ AgentsIn(Infected(TRUE, Mild), 1) = si.infected_mild_symptomatic
             /\ AgentsIn(Infected(TRUE, Severe), 1) = si.infected_severe
             /\ Cardinality({i \in DOMAIN region : region[i] = fresh})
                  = Len(region) - total(si)
             /\ \A i \in DOMAIN region :
                  region[i] = [fresh EXCEPT !.state_machine = region[i].state_machine]
        /\ total(si) > Len(region) =>
             /\ ~run.started
             /\ \A i \in DOMAIN region : region[i] = fresh
        /\ panicked => total(si) > Len(region)
C29_Witness ==
    /\ run.started
    /\ Len(region) > total(run.start_infections)
    /\ total(run.start_infections) >= 2
    /\ run.start_infections.exposed = 1
    /\ is_susceptible(region[1].state_machine)
    /\ region[Len(region)].state_machine.state = Exposed(0)

----------------------------------------------------------------------------
(* C30: infection_day changes only through the daily increment. The hour of *)
(* the routine that has ROUTINE_START_TIME as its hour of day adds exactly  *)
(* one to it when the citizen is Infected as that hour begins; the routine  *)
(* of every other hour, and of that hour for a citizen that is Susceptible, *)
(* Exposed, Recovered or Deceased, leaves it as it was, and so does the     *)
(* vaccination that follows the routine. One hour is simulated once, so a   *)
(* day adds at most one.                                                    *)
DailyIncrement ==
    LET hour_of_day == simulation_hour' % NUMBER_OF_HOURS
        due == hour_of_day = ROUTINE_START_TIME /\ is_infected(citizen.state_machine)
    IN  /\ simulation_hour' = simulation_hour + 1
        /\ citizen'.state_machine.infection_day =
             citizen.state_machine.infection_day + (IF due THEN 1 ELSE 0)
C30_InfectionDayOnlyDaily == [][DailyIncrement]_vars

(* an infection caught during the run, on its third day at the start of the *)
(* fourth day of the run                                                    *)
C30_Witness ==
    /\ ~panicked
    /\ simulation_hour = 4 * HOURS_IN_A_DAY
    /\ simulation_hour % NUMBER_OF_HOURS = ROUTINE_START_TIME
    /\ is_infected(citizen.state_machine)
    /\ citizen.state_machine.infection_day = 3

----------------------------------------------------------------------------
(* Properties of the citizen's movements (SpecMove).                        *)

HourOfDay == simulation_hour' % NUMBER_OF_HOURS
Immobile == ~can_move_isolated(citizen, lockdown.isolated)
ReturnsHomeFromWork ==
    /\ citizen.work_status.tag \in {"Normal", "Essential"}
    /\ is_symptomatic(citizen.state_machine)
    /\ lockdown.cell = "work"
    /\ HourOfDay = ROUTINE_WORK_END_TIME
    /\ lockdown'.cell = "home"
Admitted ==
    /\ HourOfDay = ROUTINE_START_TIME
    /\ is_infected_severe(citizen.state_machine) /\ ~citizen.hospitalized
    /\ lockdown'.cell \in {"hospital", "home"}
Discharged ==
    /\ HourOfDay = ROUTINE_END_TIME
    /\ is_infected(citizen.state_machine)
    /\ citizen'.state_machine.state = Recovered
    /\ lockdown'.cell = "home"

(* C31 as stated: a citizen that is symptomatic, hospitalized, deceased or  *)
(* isolated at the start of a tick is in the same cell at its end, unless   *)
(* it is a symptomatic working citizen in its work area whose target is     *)
(* home.                                                                    *)
C31_Stated_ImmobileStays ==
    [][Immobile => (lockdown'.cell = lockdown.cell \/ ReturnsHomeFromWork)]_vars

(* C31, amended: such a citizen is in the same cell at the end of the tick  *)
(* unless it is a symptomatic working citizen in its work area whose target *)
(* is home, or the ROUTINE_START_TIME hour takes it, severely infected and  *)
(* not yet hospitalized, to the hospital (to its home area when no bed is   *)
(* vacant), or it recovers at the ROUTINE_END_TIME hour and is moved to a   *)
(* point of its home area.                                                  *)
C31_Amended_ImmobileStays ==
    [][Immobile => (\/ lockdown'.cell = lockdown.cell
                    \/ ReturnsHomeFromWork
                    \/ Admitted
                    \/ Discharged)]_vars

(* an isolated worker without symptoms that has stood in the transport area *)
(* through the hours of the day, the last one simulated                     *)
C31_Witness ==
    /\ ~panicked
    /\ lockdown.isolated /\ is_susceptible(citizen.state_machine)
    /\ citizen.work_status = Normal
    /\ lockdown.cell = "transport" /\ lockdown.cell_when_locked = "transport"
    /\ simulation_hour = FirstMoveHour + MaxMoveHours - 1

----------------------------------------------------------------------------
(* C32: in every simulated hour the citizen goes through the routine        *)
(* action, the exposure update, the infection update and the severity       *)
(* update, so its infection and severity progress is evaluated in every     *)
(* hour of the day: an Exposed citizen whose exposure has lasted its        *)
(* longest leaves the hour Infected, and a pre-symptomatic one whose        *)
(* pre-symptomatic time is over leaves it Mild or Severe.                   *)
ProgressEvaluated ==
    LET m == citizen.state_machine
    IN  ~panicked' =>
          /\ (/\ is_exposed(m)
              /\ \A random_factor \in RANGE_FOR_EXPOSED :
                   infect_threshold(simulation_hour', m.state.at_hour, random_factor))
                => is_infected(citizen'.state_machine)
          /\ (/\ is_pre_symptomatic(m)
              /\ pre_symptomatic_over(simulation_hour', m.state.severity.at_hour))
                => ~is_pre_symptomatic(citizen'.state_machine)
C32_DynamicsEveryHour == [][ProgressEvaluated]_vars

----------------------------------------------------------------------------
(* Properties of the two buffers (SpecBuffers).                             *)

ReadBufferAfter(h) ==
    IF h % 2 = 0 THEN write_agent_location_map' ELSE agent_location_map'

(* C33: within one tick reads do not observe partial writes. While the hour *)
(* stays the same, whatever is inserted into the write buffer or flagged in *)
(* it by lock_city and vaccinate leaves the map the routines read as it was *)
(* before the tick, and every point a routine returns is one that map       *)
(* allows; when the next hour starts, the map it reads is exactly the map   *)
(* hour h has written, interventions included (the first hour reads the map *)
(* the run starts with).                                                    *)
ReadsThePreTickMap ==
    /\ simulation_hour' = simulation_hour =>
         /\ ReadBufferAfter(simulation_hour) = ReadBuffer(simulation_hour)
         /\ last_insert' # last_insert =>
              last_insert'.point \in
                perform_operation(last_insert'.cell, ReadBuffer(simulation_hour))
    /\ simulation_hour' = simulation_hour + 1 =>
         ReadBufferAfter(simulation_hour + 1) =
           IF simulation_hour = 0 THEN agent_location_map
           ELSE WriteBuffer(simulation_hour)
C33_ReadsSeeNoPartialWrites == [][ReadsThePreTickMap]_vars

(* hour 2 reads a citizen that was flagged after hour 1's simulate, and an  *)
(* agent of hour 2 has already moved into the write buffer                  *)
C33_Witness ==
    /\ simulation_hour = 2
    /\ \E cell \in Cells : ReadBuffer(simulation_hour)[cell] < 0
    /\ last_insert # NoInsert
    /\ last_insert.point # last_insert.cell
    /\ pending # {}

----------------------------------------------------------------------------
(* C34: when the random point chosen in the target area is occupied, the    *)
(* move is retried within the area: a citizen that is allowed to move to an *)
(* area that still has a vacant cell ends the step in that area rather than *)
(* staying where it was.                                                    *)
C34_RetriesWithinArea ==
    (/\ traveller.op = "goto_area"
     /\ \E point \in traveller.target_area : is_cell_vacant(agent_location_map, point))
       => traveller.new_cell \in traveller.target_area

----------------------------------------------------------------------------
(* C35: hospital staff follow the quarantine cycle. A staff member becomes  *)
(* work-quarantined exactly QUARANTINE_DAYS * 24 hours after its last shift *)
(* start, not before, and stays work-quarantined through the next           *)
(* QUARANTINE_DAYS * 24 hours, until it rotates back to work.               *)
SinceShiftStart == saturating_sub(simulation_hour, citizen.work_status.work_start_at)
C35_QuarantineCycle ==
    (is_hospital_staff(citizen) /\ ~panicked) =>
      /\ citizen.work_quarantined =>
           SinceShiftStart >= HOURS_IN_A_DAY * QUARANTINE_DAYS
      /\ SinceShiftStart \in (HOURS_IN_A_DAY * QUARANTINE_DAYS)
                               ..(HOURS_IN_A_DAY * QUARANTINE_DAYS * 2 - 1) =>
           citizen.work_quarantined

----------------------------------------------------------------------------
(* Properties of the acks (SpecAcks).                                       *)

Ack(e, hr) == [engine_id |-> e, hour |-> hr]
Last(log) == IF log = <<>> THEN "none" ELSE log[Len(log)]
AckSendFailed(e) == engines[e].pc = "panicked" /\ Last(engines[e].log) = "panic"
(* the pass of hour hr has run to its end *)
PassCompleted(e, hr) ==
    /\ hr <= engines[e].counts.hour
    /\ hr < engines[e].hour \/ engines[e].pc = "ended"
TickReceived(e) ==
    engines[e].tick # NoTick /\ engines[e].tick.hour = engines[e].hour

(* C36: for every hour h for which the region received a tick that does    *)
(* not terminate, and for hour 1, the region emits exactly one ack carrying *)
(* hour h and its counts, after the travellers of hour h are assimilated    *)
(* and the interventions applied; only a failed ack send aborts it before.  *)
(* So a region that holds the tick of hour h, that has not aborted, and     *)
(* that no bucket of the hour is still to reach, has emitted its ack.       *)
C36_AckForEveryTick ==
    \A e \in Regions :
      (/\ TickReceived(e)
       /\ engines[e].pc # "panicked"
       /\ Stream(e) = <<>>
       /\ \A peer \in Regions \ {e} : Published(peer, engines[e].hour))
        => Ack(e, engines[e].hour) \in bus.acks

(* the ack of a pass: the last step of the pass, once, after the travellers *)
(* were assimilated and the interventions applied, with the counts of then  *)
AckEndsThePass(e) ==
    LET eng == engines'[e]
        log == eng.log
        hr == engines[e].hour
    IN  /\ Ack(e, hr) \notin bus.acks
        /\ hr = 1 \/ is_boundary_hour(plan, hr)
        /\ Last(log) = "ack"
        /\ Cardinality({i \in DOMAIN log : log[i] = "ack"}) = 1
        /\ log[Len(log) - 1] = "interventions"
        /\ (\E i \in DOMAIN log : log[i] = "tick") =>
              \E i \in DOMAIN log : log[i] = "assimilated"
        /\ eng.counts = [hour |-> hr, population |-> current_population(eng.map)]
AcksInTheirPlace ==
    \A e \in Regions : \A hr \in 1..MaxEngineHour :
      /\ Ack(e, hr) \in bus.acks <=>
           (PassCompleted(e, hr) /\ (hr = 1 \/ is_boundary_hour(plan, hr)))
      /\ AckSendFailed(e) =>
           /\ Ack(e, engines[e].hour) \notin bus.acks
           /\ engines[e].hour = 1 \/ is_boundary_hour(plan, engines[e].hour)
AckFailuresAbort ==
    Cardinality({e \in Regions : AckSendFailed(e)}) = MaxAckFailures - bus.ack_failures

(* What holds of the acks: for every hour h whose pass of the loop the      *)
(* region runs to its end, the region has emitted an ack of hour h exactly  *)
(* when h is 1 or an hour it received a tick for; it emits the ack once, as *)
(* the last step of the pass, after the travellers of hour h are            *)
(* assimilated and the interventions applied, with the counts they leave; a *)
(* failed ack send aborts the region, which has then emitted no ack for     *)
(* that hour.                                                               *)
AckEndsEveryPass ==
    /\ [](AcksInTheirPlace /\ AckFailuresAbort)
    /\ [][\A e \in Regions :
            (Ack(e, engines[e].hour) \in bus'.acks \ bus.acks) => AckEndsThePass(e)]_vars

----------------------------------------------------------------------------
(* Properties of the hospitalized flag (SpecCitizen).                       *)

SevereInfected == Infected(TRUE, Severe)
HospitalizedOnlyWhenSevere ==
    citizen.hospitalized => citizen.state_machine.state = SevereInfected
SetAtRoutineStart ==
    (~citizen.hospitalized /\ citizen'.hospitalized) =>
        /\ simulation_hour' % NUMBER_OF_HOURS = ROUTINE_START_TIME
        /\ citizen.state_machine.state = SevereInfected
ClearedOnRecoveryOrDeath ==
    (citizen.hospitalized /\ citizen'.state_machine.state \in {Recovered, Deceased}) =>
        ~citizen'.hospitalized

(* C37: in every reachable state a hospitalized citizen is in state         *)
(* Infected{symptoms: true, severity: Severe}; the flag is set only at      *)
(* ROUTINE_START, on a severely infected citizen, and it is cleared in the  *)
(* step in which the citizen recovers or dies, so no Recovered, Deceased,   *)
(* Exposed or Susceptible citizen is ever hospitalized.                     *)
C37_HospitalizedIsSevere ==
    /\ []HospitalizedOnlyWhenSevere
    /\ [][SetAtRoutineStart /\ ClearedOnRecoveryOrDeath]_vars

(* a citizen hospitalized during the run, still in the hospital in the hour *)
(* before the ROUTINE_END of the disease's last day                         *)
C37_Witness ==
    /\ ~panicked
    /\ citizen.hospitalized
    /\ (simulation_hour + 1) % NUMBER_OF_HOURS = ROUTINE_END_TIME
    /\ citizen.state_machine.infection_day = DiseaseLastDay

----------------------------------------------------------------------------
(* Properties of the bucketing of a run's outgoing commuters (SpecOutgoing). *)

CommuteBoundaryHour ==
    traveller.simulation_hour % 24 \in {ROUTINE_TRAVEL_START_TIME, ROUTINE_TRAVEL_END_TIME}
Occurrences(commuter, bucket) ==
    Cardinality({i \in 1..Len(bucket.commuters) : bucket.commuters[i] = commuter})
RECURSIVE SizesFrom(_, _)
SizesFrom(buckets, r) ==
    IF r > Len(buckets) THEN 0
    ELSE Len(buckets[r].commuters) + SizesFrom(buckets, r + 1)

(* C38: at a commute boundary hour every commuter of the outgoing list is   *)
(* in exactly one bucket returned by get_commuters_by_region, exactly once, *)
(* so the bucket sizes sum to the number of outgoing commuters, which is    *)
(* what remove_commuters takes out of the map.                              *)
C38_NoCommuterLostOrDuplicated ==
    (traveller.op = "get_commuters_by_region" /\ CommuteBoundaryHour) =>
        /\ \A k \in 1..Len(traveller.commuters) :
              /\ Cardinality({r \in 1..Len(traveller.commuters_by_region) :
                     InBucket(traveller.commuters[k], traveller.commuters_by_region[r])}) = 1
              /\ \A r \in 1..Len(traveller.commuters_by_region) :
                     Occurrences(traveller.commuters[k], traveller.commuters_by_region[r]) <= 1
        /\ SizesFrom(traveller.commuters_by_region, 1) = Len(traveller.commuters)

(* two commuters that leave for the same region in the morning of the       *)
(* second day, both in its bucket                                            *)
C38_Witness ==
    /\ traveller.op = "get_commuters_by_region"
    /\ traveller.simulation_hour = 24 + ROUTINE_TRAVEL_START_TIME
    /\ Len(traveller.commuters) = 2
    /\ traveller.commuters[1].work_location = traveller.commuters[2].work_location
    /\ \E r \in 1..Len(traveller.commuters_by_region) :
          Len(traveller.commuters_by_region[r].commuters) = 2

----------------------------------------------------------------------------
(* Properties of the addressing of the buckets (SpecRegions).               *)

StreamsOf(e) == {bus.commute[e], bus.migration[e]}
ReadsFrom(e, stream_, stream_after) ==
    stream_ # <<>> /\ stream_after = Tail(stream_)
BucketRead(e) ==
    IF ReadsFrom(e, bus.commute[e], bus'.commute[e]) /\ engines[e].pc = "commuters"
    THEN {Head(bus.commute[e])}
    ELSE IF ReadsFrom(e, bus.migration[e], bus'.migration[e]) /\ engines[e].pc = "migrators"
    THEN {Head(bus.migration[e])}
    ELSE {}
ReadsOnlyItsOwnBuckets(e) ==
    /\ \A bucket \in BucketRead(e) : bucket.to = e
    /\ engines'[e].received > engines[e].received =>
          \E bucket \in BucketRead(e) : bucket.to = e
    /\ \A a \in Agents :
          /\ engines'[e].incoming[a] > engines[e].incoming[a] =>
                \E bucket \in BucketRead(e) : bucket.to = e /\ a \in bucket.travellers
          /\ engines'[e].map[a] > engines[e].map[a] =>
                \/ engines[e].incoming[a] > 0
                \/ \E bucket \in BucketRead(e) : bucket.to = e /\ a \in bucket.travellers

----------------------------------------------------------------------------
(* Properties of the stop check in each run mode (SpecModes).               *)

ZeroActiveCases(row) == row.exposed = 0 /\ row.infected = 0 /\ row.hospitalized = 0
PassCompletes == counts'.hour = counts.hour + 1 /\ ~panicked'
LoopEnds == ~run.ended /\ run'.ended
MultiEngineStop ==
    run.run_mode = "MultiEngine" =>
      /\ LoopEnds => (run'.terminated \/ simulation_hour' = MaxSingleHour)
      /\ (PassCompletes /\ ZeroActiveCases(counts') /\ simulation_hour' < MaxSingleHour)
            => ~run'.ended
      /\ run'.lockdown.zero_infection_hour =
            IF PassCompletes /\ ZeroActiveCases(counts') /\ run'.lockdown.locked_down
            THEN counts'.hour ELSE run.lockdown.zero_infection_hour
OtherModesStop ==
    run.run_mode # "MultiEngine" =>
      /\ (PassCompletes /\ ZeroActiveCases(counts')) => run'.ended
      /\ LoopEnds => (ZeroActiveCases(counts') \/ simulation_hour' = MaxSingleHour)
      /\ run'.lockdown = run.lockdown

(* C40: in multi-region mode zero active cases (exposed, infected and       *)
(* hospitalized all zero) never ends the region's run: the loop ends only   *)
(* on a terminate tick or with the last configured hour, and zero active    *)
(* cases only records the hour as the zero-infection hour while the region  *)
(* is locked down; in the other run modes zero active cases ends the run in *)
(* the same hour.                                                           *)
C40_ZeroActiveCasesByMode == [][MultiEngineStop /\ OtherModesStop]_vars

(* a locked-down region of a multi-region run, in its fifth hour with zero  *)
(* active cases, still running, the hour recorded                           *)
C40_Witness ==
    /\ run.run_mode = "MultiEngine"
    /\ ~run.ended /\ ~panicked
    /\ simulation_hour = 5
    /\ ZeroActiveCases(counts)
    /\ run.lockdown = [locked_down |-> TRUE, zero_infection_hour |-> 5]

====
